---------------------------- MODULE Spec2Model ----------------------------
(***************************************************************************)
(* Model of the neo4j -> PostgreSQL migration tool.                        *)
(*                                                                         *)
(*   SpecSort    sort_rows_for_foreign_key (client_migration.py)           *)
(*   SpecMap     the row mappers / deduplicators (complete_migration.py)   *)
(*   SpecLoad    the load steps of run_migration against the target store  *)
(*   SpecRun     main's runner, pg_connection and the steps it runs        *)
(*   SpecExport  export_neo4j_to_csv (neo4j_export.py)                      *)
(*   SpecTypes   migrate_asset_types (asset_type_migration.py)             *)
(*   SpecRead    read_multiple_csv_files and the head of run_migration     *)
(*   SpecRace    migrate_points run by concurrent loader processes         *)
(*                                                                         *)
(* Python's None and the empty string are both falsy and are written 0.    *)
(***************************************************************************)
EXTENDS Integers, Sequences, FiniteSets, TLC

VARIABLES
    \* ---- sort_rows_for_foreign_key
    rows,               \* the batch passed in
    spc,                \* position in the function
    client_id_to_row,   \* dict client_id -> row
    dependencies,       \* dict client_id -> set of dependants
    in_degree,          \* dict client_id -> number of unprocessed parents
    queue,              \* list of ids ready to be emitted
    sorted_rows,        \* the list being returned
    dequeued,           \* ids popped so far, in order (history)
    \* ---- staged input and the row mappers
    data,               \* the merged staged records (read_multiple_csv_files)
    asset_type_csv,     \* assetType.csv: asset type name -> id (0: no line)
    mapper,             \* the mapper that has been applied ("" before)
    mapped,             \* the rows it returned
    \* ---- the target store and the load steps of run_migration
    db,                 \* the committed tables of the target store
    choice,             \* the operator's menu choice (show_menu)
    csv_to_point_id_map,\* migrate_points: staged data_point_id -> point_id
    runs,               \* number of completed runs of the chosen load
    before,             \* the committed tables before the last run (history)
    \* ---- main's runner and pg_connection
    selected,           \* the migrations main runs, in order
    idx,                \* index of the current migration in selected
    rpc,                \* position of the runner
    conn,               \* the tables as the open transaction sees them
    started,            \* indexes of the migrations started (history)
    failed,             \* index of the migration that raised, 0 if none
    step_start,         \* the committed tables when the current step began
    \* ---- export_neo4j_to_csv
    partitions,         \* per subcommunity id, what the count query returns
    batch_size,         \* batch_size
    epc,                \* position in export_neo4j_to_csv
    subcommunity_idx,   \* index of the current subcommunity id
    num_batches,        \* num_batches of the current subcommunity
    batch_num,          \* batch_num of the inner loop
    global_batch_counter, \* global_batch_counter
    files,              \* the data_N.csv files written by this run
    windows,            \* the fetch_batch calls issued so far (history)
    counted,            \* the subcommunities whose count was queried (history)
    data_dir,           \* the numbers N of the data_N.csv files in the data directory
    \* ---- types
    asset_type_data,    \* AssetTypeToMigrate.csv as read_asset_type_csv returns it
    name_unique,        \* whether asset_type.name carries a unique constraint
    raised,             \* number of runs of migrate_asset_types that raised (history)
    type_rows,          \* the rows map_asset_types_to_rows returned in the last run
    \* ---- read
    staging,            \* the data directory: staging file name -> number of records
    request,            \* the file name or pattern asked for
    glob_order,         \* the matching files as glob lists them
    csv_files,          \* the matching files, sorted
    file_idx,           \* index of the file being read
    all_rows,           \* the records read so far
    rdpc,               \* position in read_multiple_csv_files / run_migration
    read_error,         \* the exception the reader raised, if any
    \* ---- race
    loaders,            \* number of loader processes running migrate_points
    lnames,             \* per loader, the names of its data_point_rows
    lpc,                \* per loader, its position in the loop of migrate_points
    lrow,               \* per loader, the index of its current row
    pending,            \* per loader, the rows inserted by its open transaction
    blind,              \* <<loader, name>> inserted after a SELECT that found no row (history)
    \* ---- epoch
    epoch_field,        \* the epoch field of the staged record being mapped
    epoch_value,        \* the staged value of the field
    epoch_result,       \* what the conversion or the mapper produced
    epoch_pc            \* staged, converted, raised, mapped, map_raised

sortVars == <<rows, spc, client_id_to_row, dependencies, in_degree, queue,
              sorted_rows, dequeued>>

mapVars == <<data, asset_type_csv, mapper, mapped>>

storeVars == <<db, choice, csv_to_point_id_map>>

loadVars == <<runs, before>>

runVars == <<selected, idx, rpc, conn, started, failed, step_start>>

exportVars == <<partitions, batch_size, epc, subcommunity_idx, num_batches,
                batch_num, global_batch_counter, files, windows, counted,
                data_dir>>

typesVars == <<asset_type_data, name_unique, raised, type_rows>>

readVars == <<staging, request, glob_order, csv_files, file_idx, all_rows, rdpc, read_error>>

raceVars == <<loaders, lnames, lpc, lrow, pending, blind>>

epochVars == <<epoch_field, epoch_value, epoch_result, epoch_pc>>

vars == <<sortVars, mapVars, storeVars, loadVars, runVars, exportVars,
         typesVars,
         readVars,
         raceVars,
         epochVars>>

-----------------------------------------------------------------------------
(* Generic helpers *)

None == 0

Range(s) == {s[i] : i \in DOMAIN s}

\* Every order in which Python may iterate a set.
Perms(S) == {p \in [1..Cardinality(S) -> S] : Range(p) = S}

SetMax(S) == CHOOSE m \in S : \A x \in S : x <= m

-----------------------------------------------------------------------------
(* sort_rows_for_foreign_key *)

MaxRows == 3
MaxClientId == 3

ClientIdValues == 0..MaxClientId
\* MaxClientId + 1 is an id that no row of any batch carries.
ColonyValues == 0..(MaxClientId + 1)

ClientRow(c, col) == [client_id |-> c, colony |-> col]
ClientRows == {ClientRow(c, col) : c \in ClientIdValues, col \in ColonyValues}

\* client_id_to_row = {row[0]: row for row in rows if row[0]}: the last row wins.
InitialRowMap(rs) ==
    LET ids == {rs[i].client_id : i \in DOMAIN rs} \ {None}
    IN  [c \in ids |-> rs[SetMax({i \in DOMAIN rs : rs[i].client_id = c})]]

\* Mutation: a colony naming no row of the batch is kept.
ResolvedColony_Kept(row, ids) == row.colony

\* The colony of a row after the check of line 114.
ResolvedColony(row, ids) ==
    IF row.colony # None /\ row.colony \notin ids THEN None ELSE row.colony

\* The loop of lines 109-131 from row i on: <<client_id_to_row, dependencies>>.
RECURSIVE FixAndBuild(_, _, _, _, _)
FixAndBuild(rs, i, ids, map, deps) ==
    IF i > Len(rs) THEN <<map, deps>>
    ELSE
        LET row    == rs[i]
            cid    == row.client_id
            colony == ResolvedColony(row, ids)
            map2   == IF colony # row.colony /\ cid # None
                      THEN [map EXCEPT ![cid] = [row EXCEPT !.colony = None]]
                      ELSE map
            deps2  == IF colony # None /\ colony \in ids /\ colony # cid
                      THEN [deps EXCEPT ![colony] = @ \cup {cid}]
                      ELSE deps
        IN  FixAndBuild(rs, i + 1, ids, map2, deps2)

NoDependencies == [c \in ColonyValues |-> {}]

\* Mutation: the in-degrees are never counted.
InDegreeOf_NotCounted(deps) == [c \in ClientIdValues |-> 0]

\* Lines 135-138: one increment per (parent, child) edge.
InDegreeOf(deps) ==
    [c \in ClientIdValues |-> Cardinality({p \in DOMAIN deps : c \in deps[p]})]

\* The function only compares ids for equality and truth, so batches are
\* enumerated up to a renaming of the ids: the ids appear in the order 1, 2, ...
\* of their first occurrence.
IsBatch(rs) ==
    \A i \in DOMAIN rs :
        rs[i].client_id # None =>
            rs[i].client_id <= 1 + SetMax({rs[j].client_id : j \in 1..(i - 1)} \cup {0})

SortIdle ==
    /\ rows = << >>
    /\ spc = "idle"
    /\ client_id_to_row = << >>
    /\ dependencies = NoDependencies
    /\ in_degree = [c \in ClientIdValues |-> 0]
    /\ queue = << >>
    /\ sorted_rows = << >>
    /\ dequeued = << >>

SortInit ==
    /\ \E n \in 0..MaxRows : rows \in {rs \in [1..n -> ClientRows] : IsBatch(rs)}
    /\ spc = "start"
    /\ client_id_to_row = << >>
    /\ dependencies = NoDependencies
    /\ in_degree = [c \in ClientIdValues |-> 0]
    /\ queue = << >>
    /\ sorted_rows = << >>
    /\ dequeued = << >>

\* Lines 99-142.
SortBuild ==
    /\ spc = "start"
    /\ IF rows = << >>
       THEN /\ spc' = "done"
            /\ sorted_rows' = rows
            /\ UNCHANGED <<client_id_to_row, dependencies, in_degree, queue>>
       ELSE LET map0 == InitialRowMap(rows)
                ids  == DOMAIN map0
                res  == FixAndBuild(rows, 1, ids, map0, NoDependencies)
                deg  == InDegreeOf(res[2])
            IN  /\ client_id_to_row' = res[1]
                /\ dependencies' = res[2]
                /\ in_degree' = deg
                /\ queue' \in Perms({c \in ids : deg[c] = 0})
                /\ sorted_rows' = << >>
                /\ spc' = "loop"
    /\ UNCHANGED <<rows, dequeued>>

\* Mutation: the head of the queue is read and left in place.
PopFront_Kept(q) == q

\* Line 146: queue.pop(0).
PopFront(q) == Tail(q)

\* Lines 152-155: the dependants whose in-degree reaches 0 are enqueued.
ReadyDependents(children, deg) == {d \in children : deg[d] = 1}

\* One iteration of the while loop, lines 144-155.
SortDequeue ==
    /\ spc = "loop"
    /\ queue # << >>
    /\ LET current_id == Head(queue)
           ready == ReadyDependents(dependencies[current_id], in_degree)
       IN  /\ sorted_rows' = IF current_id \in DOMAIN client_id_to_row
                             THEN Append(sorted_rows, client_id_to_row[current_id])
                             ELSE sorted_rows
           /\ in_degree' = [c \in ClientIdValues |->
                              IF c \in dependencies[current_id]
                              THEN in_degree[c] - 1 ELSE in_degree[c]]
           /\ \E order \in Perms(ready) : queue' = PopFront(queue) \o order
           /\ dequeued' = Append(dequeued, current_id)
    /\ UNCHANGED <<rows, spc, client_id_to_row, dependencies>>

\* Mutation: the rows the sort did not reach are not returned.
RemainingRows_Dropped(rs, out) == << >>

\* Lines 157-164: added_ids is computed once, before the loop over rows.
RemainingRows(rs, out) ==
    LET added_ids == {out[i].client_id : i \in DOMAIN out} \ {None}
    IN  SelectSeq(rs, LAMBDA row : row.client_id # None /\ row.client_id \notin added_ids)

SortRemaining ==
    /\ spc = "loop"
    /\ queue = << >>
    /\ sorted_rows' = sorted_rows \o RemainingRows(rows, sorted_rows)
    /\ spc' = "done"
    /\ UNCHANGED <<rows, client_id_to_row, dependencies, in_degree, queue, dequeued>>

SortFrame == UNCHANGED <<mapVars, storeVars, loadVars, runVars, exportVars,
        typesVars,
        readVars,
        raceVars,
        epochVars>>

SortNext ==
    \/ SortBuild /\ SortFrame
    \/ SortDequeue /\ SortFrame
    \/ SortRemaining /\ SortFrame

-----------------------------------------------------------------------------
(* Staged records and the row mappers of complete_migration.py *)

MaxRecords == 3
MaxKey == 2

\* The literal text "null" in a staged spaces_id (line 178).
NullText == -1

\* The columns of a staged record that no mapper inspects (names, status,
\* locations, ...) are carried as one payload.
Payloads == {"v1", "v2"}

StagedRecord(s, c, b, sp, a, t, d, p, v) ==
    [sub_community_id |-> s, community_id |-> c, building_id |-> b,
     spaces_id |-> sp, asset_id |-> a, asset_type |-> t,
     data_point_id |-> d, point_name |-> p, val |-> v]

\* asset_type_map.get(name) of load_asset_type_map: None when the file has no
\* usable line for the name.
AssetTypeId(csv, name) == IF name \in DOMAIN csv THEN csv[name] ELSE None

\* Mutation: a later record with the same key replaces the row kept so far.
FirstPerKey_LastWins(has, key, row) ==
    LET LastIdx(k) == SetMax({i \in DOMAIN key : has[i] /\ key[i] = k})
        F[i \in 0..Len(key)] ==
            IF i = 0 THEN << >>
            ELSE IF has[i] /\ LastIdx(key[i]) = i
                 THEN Append(F[i - 1], row[i])
                 ELSE F[i - 1]
    IN  F[Len(key)]

\* The loop shared by get_subcommunity_rows, get_building_rows, get_asset_rows,
\* get_asset_space_rows and get_data_point_rows: a seen set, and a row appended
\* for the first record carrying each key.  For record i, has[i] says whether
\* it carries the key, key[i] is the key and row[i] the row built from it.
FirstPerKey(has, key, row) ==
    LET F[i \in 0..Len(key)] ==
            IF i = 0 THEN [seen |-> {}, rows |-> << >>]
            ELSE LET prev == F[i - 1]
                 IN  IF has[i] /\ key[i] \notin prev.seen
                     THEN [seen |-> prev.seen \cup {key[i]},
                           rows |-> Append(prev.rows, row[i])]
                     ELSE prev
    IN  F[Len(key)].rows

SubcommunityRow(rec) ==
    [identifier |-> rec.sub_community_id, community_id |-> rec.community_id,
     val |-> rec.val]

get_subcommunity_rows(recs) ==
    FirstPerKey([i \in DOMAIN recs |-> recs[i].sub_community_id # None],
                [i \in DOMAIN recs |-> recs[i].sub_community_id],
                [i \in DOMAIN recs |-> SubcommunityRow(recs[i])])

BuildingRow(rec) ==
    [identifier |-> rec.building_id, sub_community_id |-> rec.sub_community_id,
     val |-> rec.val]

get_building_rows(recs) ==
    FirstPerKey([i \in DOMAIN recs |-> recs[i].building_id # None],
                [i \in DOMAIN recs |-> recs[i].building_id],
                [i \in DOMAIN recs |-> BuildingRow(recs[i])])

SpaceRow(rec) ==
    [identifier |-> rec.spaces_id, building_identifier |-> rec.building_id,
     val |-> rec.val]

\* get_space_rows: a record without building_id is skipped before its
\* spaces_id is added to seen.
get_space_rows(recs) ==
    LET F[i \in 0..Len(recs)] ==
            IF i = 0 THEN [seen |-> {}, rows |-> << >>]
            ELSE LET prev == F[i - 1]
                     rec  == recs[i]
                 IN  IF \/ rec.spaces_id = None
                        \/ rec.spaces_id = NullText
                        \/ rec.spaces_id \in prev.seen
                        \/ rec.building_id = None
                     THEN prev
                     ELSE [seen |-> prev.seen \cup {rec.spaces_id},
                           rows |-> Append(prev.rows, SpaceRow(rec))]
    IN  F[Len(recs)].rows

AssetRow(rec, csv) ==
    [identifier |-> rec.asset_id, type |-> AssetTypeId(csv, rec.asset_type),
     site_id |-> rec.building_id, sub_community_id |-> rec.sub_community_id,
     client_id |-> rec.community_id, val |-> rec.val]

get_asset_rows(recs, csv) ==
    FirstPerKey([i \in DOMAIN recs |-> recs[i].asset_id # None],
                [i \in DOMAIN recs |-> recs[i].asset_id],
                [i \in DOMAIN recs |-> AssetRow(recs[i], csv)])

AssetSpaceRow(rec) == <<rec.asset_id, rec.spaces_id>>

get_asset_space_rows(recs) ==
    FirstPerKey([i \in DOMAIN recs |->
                    recs[i].asset_id # None /\ recs[i].spaces_id # None],
                [i \in DOMAIN recs |-> AssetSpaceRow(recs[i])],
                [i \in DOMAIN recs |-> AssetSpaceRow(recs[i])])

DataPointRow(rec) ==
    [csv_id |-> rec.data_point_id, name |-> rec.point_name, val |-> rec.val]

get_data_point_rows(recs) ==
    FirstPerKey([i \in DOMAIN recs |-> recs[i].point_name # None],
                [i \in DOMAIN recs |-> recs[i].point_name],
                [i \in DOMAIN recs |-> DataPointRow(recs[i])])

\* Each mapper reads at most two key columns of a record, so the records are
\* drawn with the single-key columns sharing one value k1 and the second key
\* column of each pair mapper (spaces_id, data_point_id) taking k2: every
\* mapper still sees every combination of the columns it reads.
MapRecords ==
    {StagedRecord(k1, k1, k1, k2, k1, k1, IF k2 = NullText THEN None ELSE k2, k1, v) :
        k1 \in 0..MaxKey, k2 \in (0..MaxKey) \cup {NullText}, v \in Payloads}

\* Keys are compared for equality only: the staged inputs are enumerated up
\* to a renaming of the keys (first occurrences in the order 1, 2, ...).
KeysInOrder(col) ==
    \A i \in DOMAIN col :
        col[i] > 0 => col[i] <= 1 + SetMax({col[j] : j \in 1..(i - 1)} \cup {0})

IsMapInput(recs) ==
    /\ KeysInOrder([i \in DOMAIN recs |-> recs[i].asset_id])
    /\ KeysInOrder([i \in DOMAIN recs |-> recs[i].spaces_id])

\* assetType.csv as load_asset_type_map reads it: missing or empty, or naming
\* asset type 1.
AssetTypeFiles == {<< >>, <<1>>}

MapIdle ==
    /\ data = << >>
    /\ asset_type_csv = << >>
    /\ mapper = ""
    /\ mapped = << >>

MapInit ==
    /\ \E n \in 0..MaxRecords :
          data \in {recs \in [1..n -> MapRecords] : IsMapInput(recs)}
    /\ asset_type_csv \in AssetTypeFiles
    /\ mapper = ""
    /\ mapped = << >>

Apply(name, result) ==
    /\ mapper = ""
    /\ mapper' = name
    /\ mapped' = result
    /\ UNCHANGED <<data, asset_type_csv>>

MapSubcommunities == Apply("subcommunity", get_subcommunity_rows(data))
MapBuildings == Apply("building", get_building_rows(data))
MapSpaces == Apply("space", get_space_rows(data))
MapAssets == Apply("asset", get_asset_rows(data, asset_type_csv))
MapAssetSpaces == Apply("asset_space", get_asset_space_rows(data))
MapDataPoints == Apply("data_point", get_data_point_rows(data))

MapFrame == UNCHANGED <<sortVars, storeVars, loadVars, runVars, exportVars,
        typesVars,
        readVars,
        raceVars,
        epochVars>>

MapNext ==
    \/ MapSubcommunities /\ MapFrame
    \/ MapBuildings /\ MapFrame
    \/ MapSpaces /\ MapFrame
    \/ MapAssets /\ MapFrame
    \/ MapAssetSpaces /\ MapFrame
    \/ MapDataPoints /\ MapFrame

-----------------------------------------------------------------------------
(* The target store and the load functions of complete_migration.py *)

\* A client / community id is written 10 * text + spelling: ids with the same
\* text differ in letter case only, and spelling 0 is the lower-case one, so
\* Lower models str.lower() and SQL LOWER().
CasedId(text, spelling) == 10 * text + spelling

Lower(c) == IF c = None THEN None ELSE (c \div 10) * 10

Spellings == 0..2

\* The tables.  Tables written with ON CONFLICT (identifier) hold one row per
\* identifier; asset_spaces maps a pair to its number of stored copies;
\* clients is the list of stored client ids in the order the store returns
\* them; the point tables are sets of rows with generated ids.
EmptyTable == [k \in {} |-> None]

EmptyStore ==
    [clients |-> << >>, types |-> {}, asset_type |-> {},
     sub_community |-> EmptyTable, building |-> EmptyTable,
     space |-> EmptyTable, assets |-> EmptyTable, asset_spaces |-> EmptyTable,
     data_point |-> {}, asset_point |-> {}, asset_type_point |-> {}]

\* INSERT ... ON CONFLICT (identifier) DO UPDATE SET <every other column>.
Upsert(table, row) ==
    [k \in DOMAIN table \cup {row.identifier} |->
        IF k = row.identifier THEN row ELSE table[k]]

\* batch_insert: the statement is executed for each row in order.
UpsertAll(table, rws) ==
    LET F[i \in 0..Len(rws)] ==
            IF i = 0 THEN table ELSE Upsert(F[i - 1], rws[i])
    IN  F[Len(rws)]

\* Mutation: the pair is inserted even when it is already stored.
InsertPair_Always(table, pair) ==
    [k \in DOMAIN table \cup {pair} |->
        IF k = pair THEN (IF pair \in DOMAIN table THEN table[pair] + 1 ELSE 1)
        ELSE table[k]]

\* INSERT INTO asset_spaces ... ON CONFLICT DO NOTHING, the pair being unique.
InsertPair(table, pair) ==
    IF pair \in DOMAIN table THEN table
    ELSE [k \in DOMAIN table \cup {pair} |-> IF k = pair THEN 1 ELSE table[k]]

InsertPairs(table, pairs) ==
    LET F[i \in 0..Len(pairs)] ==
            IF i = 0 THEN table ELSE InsertPair(F[i - 1], pairs[i])
    IN  F[Len(pairs)]

\* str(uuid.uuid4()): an id no stored row carries.
NewUuid(used) == 1 + SetMax(used \cup {0})

\* Mutation: the stored spelling is not substituted into the row.
ActualClientId_AsStaged(valid_client_id_map, community_id) == community_id

\* Lines 506 and 513-514: the stored client id replacing the staged one.
ActualClientId(valid_client_id_map, community_id) ==
    valid_client_id_map[Lower(community_id)]

\* migrate_subcommunities, lines 457-540.
MigrateSubcommunities(t, recs) ==
    LET rws == get_subcommunity_rows(recs)
        unique_community_ids == {rws[i].community_id : i \in DOMAIN rws} \ {None}
        fetched == SelectSeq(t.clients,
                       LAMBDA c : Lower(c) \in {Lower(u) : u \in unique_community_ids})
        valid_client_id_map ==
            [k \in {Lower(fetched[i]) : i \in DOMAIN fetched} |->
                fetched[SetMax({i \in DOMAIN fetched : Lower(fetched[i]) = k})]]
        kept == SelectSeq(rws, LAMBDA w :
                    /\ w.community_id # None
                    /\ Lower(w.community_id) \in DOMAIN valid_client_id_map)
        valid_rows == [i \in DOMAIN kept |->
                          [kept[i] EXCEPT !.community_id =
                              ActualClientId(valid_client_id_map, @)]]
    IN  [t EXCEPT !.sub_community = UpsertAll(@, valid_rows)]

\* migrate_buildings, lines 543-570.
MigrateBuildings(t, recs) ==
    [t EXCEPT !.building = UpsertAll(@, get_building_rows(recs))]

\* migrate_spaces, lines 573-595.
MigrateSpaces(t, recs) ==
    [t EXCEPT !.space = UpsertAll(@, get_space_rows(recs))]

\* Mutation: every staged pair is kept, whether its space is stored or not.
ValidAssetSpaceRows_Unfiltered(t, pairs) == pairs

\* Lines 649-667: the pairs whose space is stored.
ValidAssetSpaceRows(t, pairs) ==
    LET unique_space_ids == {pairs[i][2] : i \in DOMAIN pairs}
        valid_space_ids == unique_space_ids \cap DOMAIN t.space
    IN  SelectSeq(pairs, LAMBDA pr : pr[2] \in valid_space_ids)

\* migrate_assets, lines 598-686.
MigrateAssets(t, recs, csv) ==
    LET rws == get_asset_rows(recs, csv)
        t2  == [t EXCEPT !.assets = UpsertAll(@, rws)]
    IN  IF rws = << >> THEN t
        ELSE [t2 EXCEPT !.asset_spaces =
                 InsertPairs(@, ValidAssetSpaceRows(t2, get_asset_space_rows(recs)))]

\* Mutation: the lookup by name finds nothing.
ExistingDataPoints_NotChecked(table, name) == {}

\* Lines 715-720: the stored data points with this name (the SELECT returns
\* one of them).
ExistingDataPoints(table, name) == {r \in table : r.name = name}

\* Mutation: the point id is a second generated value.
NewPointId_Separate(data_point_id) == data_point_id + 1

\* Line 711: point_id = data_point_id.
NewPointId(data_point_id) == data_point_id

\* Lines 707-758: the loop over data_point_rows; the data_point table and
\* inserted_data_points, a list of <<csv_id, db_id, point_id>>.
InsertDataPoints(table, dprows) ==
    LET F[i \in 0..Len(dprows)] ==
            IF i = 0 THEN [table |-> table, inserted |-> << >>]
            ELSE LET prev     == F[i - 1]
                     w        == dprows[i]
                     existing == ExistingDataPoints(prev.table, w.name)
                 IN  IF existing # {}
                     THEN LET e == CHOOSE r \in existing : TRUE
                              point_id == IF e.point_id # None THEN e.point_id ELSE e.id
                          IN  [table |-> prev.table,
                               inserted |-> Append(prev.inserted, <<w.csv_id, e.id, point_id>>)]
                     ELSE LET data_point_id == NewUuid({r.id : r \in prev.table})
                              point_id == NewPointId(data_point_id)
                          IN  [table |-> prev.table \cup
                                   {[id |-> data_point_id, point_id |-> point_id,
                                     name |-> w.name, val |-> w.val]},
                               inserted |-> Append(prev.inserted,
                                   <<w.csv_id, data_point_id, point_id>>)]
    IN  F[Len(dprows)]

\* Lines 764-766: a dict comprehension, a later entry replacing an earlier one.
CsvToPointIdMap(inserted) ==
    [c \in {inserted[i][1] : i \in DOMAIN inserted} |->
        inserted[SetMax({i \in DOMAIN inserted : inserted[i][1] = c})][3]]

\* Mutation: a record whose data-point id has no entry in the mapping is
\* linked under its staged id.
LinkRows_Unmapped(recs, owner, map) ==
    LET kept == {i \in DOMAIN recs : owner[i] # None /\ recs[i].data_point_id # None}
        F[i \in 0..Len(recs)] ==
            IF i = 0 THEN << >>
            ELSE IF i \notin kept THEN F[i - 1]
            ELSE Append(F[i - 1],
                    [owner |-> owner[i],
                     data_point_id |->
                         IF recs[i].data_point_id \in DOMAIN map
                         THEN map[recs[i].data_point_id]
                         ELSE recs[i].data_point_id,
                     val |-> recs[i].val])
    IN  F[Len(recs)]

\* The loop shared by get_asset_point_rows and get_asset_type_point_rows:
\* owner[i] is the asset id (asset type id) of record i.
LinkRows(recs, owner, map) ==
    LET F[i \in 0..Len(recs)] ==
            IF i = 0 THEN [seen |-> {}, rows |-> << >>]
            ELSE LET prev == F[i - 1]
                     csv_data_point_id == recs[i].data_point_id
                 IN  IF \/ owner[i] = None
                        \/ csv_data_point_id = None
                        \/ csv_data_point_id \notin DOMAIN map
                     THEN prev
                     ELSE LET pair_key == <<owner[i], map[csv_data_point_id]>>
                          IN  IF pair_key \in prev.seen THEN prev
                              ELSE [seen |-> prev.seen \cup {pair_key},
                                    rows |-> Append(prev.rows,
                                        [owner |-> owner[i],
                                         data_point_id |-> map[csv_data_point_id],
                                         val |-> recs[i].val])]
    IN  F[Len(recs)].rows

get_asset_point_rows(recs, map) ==
    LinkRows(recs, [i \in DOMAIN recs |-> recs[i].asset_id], map)

get_asset_type_point_rows(recs, csv, map) ==
    LinkRows(recs, [i \in DOMAIN recs |-> AssetTypeId(csv, recs[i].asset_type)], map)

\* Mutation: a stored link row with the same owner and data point takes the
\* staged values.
InsertLinks_Upsert(table, lrows) ==
    LET F[i \in 0..Len(lrows)] ==
            IF i = 0 THEN table
            ELSE LET prev == F[i - 1]
                     w    == lrows[i]
                     hit  == {r \in prev : r.owner = w.owner /\ r.data_point_id = w.data_point_id}
                 IN  IF hit # {}
                     THEN (prev \ hit) \cup {[r EXCEPT !.val = w.val] : r \in hit}
                     ELSE prev \cup {[id |-> NewUuid({r.id : r \in prev}),
                                      owner |-> w.owner,
                                      data_point_id |-> w.data_point_id,
                                      val |-> w.val]}
    IN  F[Len(lrows)]

\* Lines 776-797 and 806-827: a link row is inserted, with a generated id,
\* unless a row with the same owner and data point is stored.
InsertLinks(table, lrows) ==
    LET F[i \in 0..Len(lrows)] ==
            IF i = 0 THEN table
            ELSE LET prev == F[i - 1]
                     w    == lrows[i]
                 IN  IF \E r \in prev : r.owner = w.owner /\ r.data_point_id = w.data_point_id
                     THEN prev
                     ELSE prev \cup {[id |-> NewUuid({r.id : r \in prev}),
                                      owner |-> w.owner,
                                      data_point_id |-> w.data_point_id,
                                      val |-> w.val]}
    IN  F[Len(lrows)]

\* migrate_points up to its first conn.commit() (lines 689-760).
PointsStep1(t, recs) ==
    [t EXCEPT !.data_point = InsertDataPoints(@, get_data_point_rows(recs)).table]

PointsMap(t, recs) ==
    CsvToPointIdMap(InsertDataPoints(t.data_point, get_data_point_rows(recs)).inserted)

\* Lines 773-801.
PointsStep2(t, recs, map) ==
    [t EXCEPT !.asset_point = InsertLinks(@, get_asset_point_rows(recs, map))]

\* Lines 803-831.
PointsStep3(t, recs, csv, map) ==
    [t EXCEPT !.asset_type_point =
        InsertLinks(@, get_asset_type_point_rows(recs, csv, map))]

\* migrate_points, when every statement succeeds.
MigratePoints(t, recs, csv) ==
    IF get_data_point_rows(recs) = << >> THEN t
    ELSE LET map == PointsMap(t, recs)
         IN  PointsStep3(PointsStep2(PointsStep1(t, recs), recs, map), recs, csv, map)

-----------------------------------------------------------------------------
(* run_migration: one load per run, chosen from the menu *)

MaxLoadRecords == 2
MaxRuns == 2

\* Community ids of staged records: none, three spellings of one text, and a
\* second text.  The clients table holds spellings of the first text only.
StagedCommunityIds ==
    {None} \cup {CasedId(1, k) : k \in Spellings} \cup {CasedId(2, 0)}

StoredClientIds == {CasedId(1, k) : k \in Spellings}

\* The asset_type column is the label of the asset node: every asset of the
\* staged input has asset type 1.
StagedAssetType(a) == IF a = None THEN None ELSE 1

\* The records a load reads, with the columns it does not read left empty.
LoadRecords(c) ==
    CASE c = 1 ->
           {StagedRecord(k, com, None, None, None, None, None, None, v) :
               k \in 0..MaxKey, com \in StagedCommunityIds, v \in Payloads}
      [] c = 2 ->
           {StagedRecord(k, None, k, None, None, None, None, None, v) :
               k \in 0..MaxKey, v \in Payloads}
      [] c = 3 ->
           {StagedRecord(None, None, b, sp, None, None, None, None, v) :
               b \in 0..1, sp \in (0..MaxKey) \cup {NullText}, v \in Payloads}
      [] c = 4 ->
           {StagedRecord(None, None, None, sp, a, StagedAssetType(a), None, None, v) :
               a \in 0..MaxKey, sp \in (0..MaxKey) \cup {NullText}, v \in Payloads}
      [] c = 5 ->
           {StagedRecord(None, None, None, None, a, StagedAssetType(a), d, p, v) :
               a \in 0..MaxKey, d \in 0..MaxKey, p \in 0..MaxKey, v \in Payloads}
      [] OTHER -> {}

\* Keys the store does not hold yet are compared for equality only.
IsLoadInput(c, recs) ==
    /\ KeysInOrder([i \in DOMAIN recs |-> recs[i].sub_community_id])
    /\ KeysInOrder([i \in DOMAIN recs |-> recs[i].asset_id])
    /\ KeysInOrder([i \in DOMAIN recs |-> recs[i].data_point_id])
    /\ KeysInOrder([i \in DOMAIN recs |-> recs[i].point_name])
    /\ c = 3 => KeysInOrder([i \in DOMAIN recs |-> recs[i].spaces_id])

LoadInputs(c, n) ==
    UNION {{recs \in [1..k -> LoadRecords(c)] : IsLoadInput(c, recs)} : k \in 0..n}

\* A store in which point 1 and its links to asset 1 and asset type 1 were
\* loaded earlier, from records with other non-key values.
PointsStore ==
    [EmptyStore EXCEPT
        !.data_point = {[id |-> 1, point_id |-> 1, name |-> 1, val |-> "v2"]},
        !.asset_point = {[id |-> 1, owner |-> 1, data_point_id |-> 1, val |-> "v2"]},
        !.asset_type_point =
            {[id |-> 1, owner |-> 1, data_point_id |-> 1, val |-> "v2"]}]

\* The store before the run: the clients in any stored order for the
\* subcommunity load, space 1 stored or not for the asset load, point 1 and
\* its links stored or not for the point load.
InitialStores(c) ==
    CASE c = 1 ->
           {[EmptyStore EXCEPT !.clients = order] :
               order \in UNION {Perms(S) : S \in SUBSET StoredClientIds}}
      [] c = 4 ->
           {EmptyStore,
            [EmptyStore EXCEPT !.space =
                [k \in {1} |-> [identifier |-> 1, building_identifier |-> 1,
                                val |-> "v1"]]]}
      [] c = 5 -> {EmptyStore, PointsStore}
      [] OTHER -> {EmptyStore}

AssetTypeFilesFor(c) == IF c \in {4, 5} THEN AssetTypeFiles ELSE {<< >>}

StoreIdle ==
    /\ db = EmptyStore
    /\ choice = 0
    /\ csv_to_point_id_map = EmptyTable

LoadIdle ==
    /\ runs = 0
    /\ before = EmptyStore

LoadInit ==
    /\ \E c \in 1..5 :
          /\ choice = c
          /\ data \in LoadInputs(c, MaxLoadRecords)
          /\ asset_type_csv \in AssetTypeFilesFor(c)
          /\ db \in InitialStores(c)
    /\ mapper = ""
    /\ mapped = << >>
    /\ csv_to_point_id_map = EmptyTable
    /\ runs = 0
    /\ before = db

\* A run of run_migration under pg_connection that raises nothing: the load
\* and the commit.
Loaded(c, t) ==
    /\ choice = c
    /\ runs < MaxRuns
    /\ before' = db
    /\ db' = t
    /\ runs' = runs + 1
    /\ UNCHANGED <<choice, mapVars>>

LoadSubcommunities ==
    Loaded(1, MigrateSubcommunities(db, data)) /\ UNCHANGED csv_to_point_id_map

LoadBuildings ==
    Loaded(2, MigrateBuildings(db, data)) /\ UNCHANGED csv_to_point_id_map

LoadSpaces ==
    Loaded(3, MigrateSpaces(db, data)) /\ UNCHANGED csv_to_point_id_map

LoadAssets ==
    Loaded(4, MigrateAssets(db, data, asset_type_csv)) /\ UNCHANGED csv_to_point_id_map

LoadPoints ==
    /\ Loaded(5, MigratePoints(db, data, asset_type_csv))
    /\ csv_to_point_id_map' = IF get_data_point_rows(data) = << >> THEN EmptyTable
                              ELSE PointsMap(db, data)

LoadFrame == UNCHANGED <<sortVars, runVars, exportVars,
        typesVars,
        readVars,
        raceVars,
        epochVars>>

LoadNext ==
    \/ LoadSubcommunities /\ LoadFrame
    \/ LoadBuildings /\ LoadFrame
    \/ LoadSpaces /\ LoadFrame
    \/ LoadAssets /\ LoadFrame
    \/ LoadPoints /\ LoadFrame

-----------------------------------------------------------------------------
(* main: the runner and pg_connection *)

RunIdle ==
    /\ selected = << >>
    /\ idx = 0
    /\ rpc = "idle"
    /\ conn = EmptyStore
    /\ started = {}
    /\ failed = 0
    /\ step_start = EmptyStore

MaxRunRecords == 1

MIGRATION_FACTORIES ==
    <<"Type migration", "Asset type migration", "Fetch asset types",
      "Neo4j to CSV export", "Client migration", "Community migration",
      "Step-by-step migration">>

\* get_selected_migrations / show_migration_menu: every migration, or one.
SelectedMigrations ==
    {MIGRATION_FACTORIES} \cup
    {<<MIGRATION_FACTORIES[i]>> : i \in DOMAIN MIGRATION_FACTORIES}

\* What the steps other than the step-by-step one load: the names of
\* typeToMigrate.csv and AssetTypeToMigrate.csv, the client ids and the
\* community ids fetched from the graph.
StagedTypeNames == {"type1"}
StagedAssetTypeNames == <<"assettype1">>
FetchedClientIds == <<CasedId(1, 1)>>
FetchedCommunityIds == <<CasedId(2, 0)>>

\* INSERT INTO clients ... ON CONFLICT (client_id) DO UPDATE.
UpsertClients(clients, ids) ==
    clients \o SelectSeq(ids, LAMBDA c : c \notin Range(clients))

\* migrate_asset_types: ids are numbered from MAX(id) + 1.
InsertAssetTypes(table, names) ==
    LET start_id == 1 + SetMax({r.id : r \in table} \cup {0})
    IN  table \cup {[id |-> start_id + i - 1, name |-> names[i]] : i \in DOMAIN names}

\* Mutation: the runner swallows the exception and goes on to the next migration.
AfterStepError_Continue(i) == [rpc |-> "next", idx |-> i + 1]

\* main.py lines 199-202: the exception is logged and raised again, which ends
\* the for loop and main.
AfterStepError(i) == [rpc |-> "halted", idx |-> i]

RunInit ==
    /\ \E sel \in SelectedMigrations :
          /\ selected = sel
          /\ IF "Step-by-step migration" \in Range(sel)
             THEN \E c \in 1..6 :
                     /\ choice = c
                     /\ data \in LoadInputs(c, MaxRunRecords)
                     /\ asset_type_csv \in AssetTypeFilesFor(c)
                     /\ db \in InitialStores(c)
             ELSE /\ choice = 0
                  /\ data = << >>
                  /\ asset_type_csv = << >>
                  /\ db = EmptyStore
    /\ mapper = ""
    /\ mapped = << >>
    /\ csv_to_point_id_map = EmptyTable
    /\ idx = 1
    /\ rpc = "next"
    /\ conn = db
    /\ started = {}
    /\ failed = 0
    /\ step_start = db

\* The for loop reaches the next migration and pg_connection opens a
\* connection (main.py lines 190-196, postgres_utils.py lines 35-36).
RunnerConnect ==
    /\ rpc = "next"
    /\ idx <= Len(selected)
    /\ started' = started \cup {idx}
    /\ step_start' = db
    /\ conn' = db
    /\ rpc' = "connected"
    /\ UNCHANGED <<selected, idx, failed, storeVars>>

\* An exception raised inside the try block of main: by create_pg_connection,
\* by a statement of the migration, or by the commit of pg_connection.  The
\* transaction is rolled back and the exception raised again.
StepRaises ==
    /\ \/ rpc = "next" /\ idx <= Len(selected)
       \/ rpc \in {"connected", "points_committed", "links_committed", "returned"}
    /\ started' = started \cup {idx}
    /\ step_start' = IF rpc = "next" THEN db ELSE step_start
    /\ conn' = db
    /\ failed' = idx
    /\ rpc' = AfterStepError(idx).rpc
    /\ idx' = AfterStepError(idx).idx
    /\ UNCHANGED <<selected, storeVars>>

\* The migration function returned: pg_connection commits and closes
\* (postgres_utils.py lines 38-45), and the loop goes on.
StepCommit ==
    /\ rpc = "returned"
    /\ db' = conn
    /\ idx' = idx + 1
    /\ rpc' = "next"
    /\ UNCHANGED <<selected, conn, started, failed, step_start, choice,
                   csv_to_point_id_map>>

\* The for loop is exhausted.
RunnerFinish ==
    /\ rpc = "next"
    /\ idx > Len(selected)
    /\ rpc' = "finished"
    /\ UNCHANGED <<selected, idx, conn, started, failed, step_start, storeVars>>

\* The body of a migration that writes through conn and commits nothing itself.
StepBody(name, t) ==
    /\ rpc = "connected"
    /\ selected[idx] = name
    /\ conn' = t
    /\ rpc' = "returned"
    /\ UNCHANGED <<selected, idx, started, failed, step_start, storeVars>>

StepTypes ==
    StepBody("Type migration", [conn EXCEPT !.types = @ \cup StagedTypeNames])

StepAssetTypes ==
    StepBody("Asset type migration",
             [conn EXCEPT !.asset_type = InsertAssetTypes(@, StagedAssetTypeNames)])

StepFetchAssetTypes == StepBody("Fetch asset types", conn)

StepExport == StepBody("Neo4j to CSV export", conn)

StepClients ==
    StepBody("Client migration",
             [conn EXCEPT !.clients = UpsertClients(@, FetchedClientIds)])

StepCommunities ==
    StepBody("Community migration",
             [conn EXCEPT !.clients = UpsertClients(@, FetchedCommunityIds)])

\* run_migration, lines 893-896: the staged files cannot be read; the error
\* is printed and run_migration returns.
StepReadFails == StepBody("Step-by-step migration", conn)

StepSubcommunities ==
    choice = 1 /\ StepBody("Step-by-step migration", MigrateSubcommunities(conn, data))

StepBuildings ==
    choice = 2 /\ StepBody("Step-by-step migration", MigrateBuildings(conn, data))

StepSpaces ==
    choice = 3 /\ StepBody("Step-by-step migration", MigrateSpaces(conn, data))

StepAssets ==
    choice = 4 /\ StepBody("Step-by-step migration",
                           MigrateAssets(conn, data, asset_type_csv))

StepExit == choice = 6 /\ StepBody("Step-by-step migration", conn)

\* migrate_points up to the conn.commit() of line 760.
StepDataPoints ==
    /\ rpc = "connected"
    /\ selected[idx] = "Step-by-step migration"
    /\ choice = 5
    /\ IF get_data_point_rows(data) = << >>
       THEN /\ rpc' = "returned"
            /\ UNCHANGED <<conn, db, csv_to_point_id_map>>
       ELSE /\ conn' = PointsStep1(conn, data)
            /\ db' = conn'
            /\ csv_to_point_id_map' = PointsMap(conn, data)
            /\ rpc' = "points_committed"
    /\ UNCHANGED <<selected, idx, started, failed, step_start, choice>>

\* Lines 773-801, with the conn.commit() of line 798.
StepAssetPoints ==
    /\ rpc = "points_committed"
    /\ IF get_asset_point_rows(data, csv_to_point_id_map) = << >>
       THEN UNCHANGED <<conn, db>>
       ELSE /\ conn' = PointsStep2(conn, data, csv_to_point_id_map)
            /\ db' = conn'
    /\ rpc' = "links_committed"
    /\ UNCHANGED <<selected, idx, started, failed, step_start, choice,
                   csv_to_point_id_map>>

\* Lines 803-831, with the conn.commit() of line 828.
StepAssetTypePoints ==
    /\ rpc = "links_committed"
    /\ IF get_asset_type_point_rows(data, asset_type_csv, csv_to_point_id_map) = << >>
       THEN UNCHANGED <<conn, db>>
       ELSE /\ conn' = PointsStep3(conn, data, asset_type_csv, csv_to_point_id_map)
            /\ db' = conn'
    /\ rpc' = "returned"
    /\ UNCHANGED <<selected, idx, started, failed, step_start, choice,
                   csv_to_point_id_map>>

RunFrame == UNCHANGED <<sortVars, mapVars, loadVars, exportVars,
        typesVars,
        readVars,
        raceVars,
        epochVars>>

RunNext ==
    \/ RunnerConnect /\ RunFrame
    \/ StepRaises /\ RunFrame
    \/ StepCommit /\ RunFrame
    \/ RunnerFinish /\ RunFrame
    \/ StepTypes /\ RunFrame
    \/ StepAssetTypes /\ RunFrame
    \/ StepFetchAssetTypes /\ RunFrame
    \/ StepExport /\ RunFrame
    \/ StepClients /\ RunFrame
    \/ StepCommunities /\ RunFrame
    \/ StepReadFails /\ RunFrame
    \/ StepSubcommunities /\ RunFrame
    \/ StepBuildings /\ RunFrame
    \/ StepSpaces /\ RunFrame
    \/ StepAssets /\ RunFrame
    \/ StepExit /\ RunFrame
    \/ StepDataPoints /\ RunFrame
    \/ StepAssetPoints /\ RunFrame
    \/ StepAssetTypePoints /\ RunFrame

-----------------------------------------------------------------------------
(* export_neo4j_to_csv *)

MaxPartitions == 2
MaxTotal == 4
MaxBatchSize == 3

\* get_total_count raises instead of returning a count.
CountFails == -1

\* An earlier export left up to MaxOldFiles files (any of data_1.csv ..
\* data_<MaxOldFiles>.csv) in the data directory.
MaxOldFiles == 2

\* Mutation: the division rounds down.
NumBatches_RoundedDown(total_count, size) == total_count \div size

\* Line 288.
NumBatches(total_count, size) == (total_count + size - 1) \div size

\* Mutation: an exception inside a subcommunity ends the whole export.
AfterPartitionError_Abort(i, n) == n + 1

\* Lines 326-330: the exception is logged and the loop continues with the
\* next subcommunity id (i: the current index, n: the number of ids).
AfterPartitionError(i, n) == i + 1

\* Line 295.
WindowSkip(n, size) == (n - 1) * size

ExportIdle ==
    /\ partitions = << >>
    /\ batch_size = 0
    /\ epc = "idle"
    /\ subcommunity_idx = 0
    /\ num_batches = 0
    /\ batch_num = 0
    /\ global_batch_counter = 0
    /\ files = {}
    /\ windows = << >>
    /\ counted = << >>
    /\ data_dir = {}

\* The state at line 264: the subcommunity ids have been read.
ExportInit ==
    /\ \E n \in 0..MaxPartitions :
          partitions \in [1..n -> (0..MaxTotal) \cup {CountFails}]
    /\ batch_size \in 1..MaxBatchSize
    /\ epc = "partition"
    /\ subcommunity_idx = 1
    /\ num_batches = 0
    /\ batch_num = 0
    /\ global_batch_counter = 0
    /\ files = {}
    /\ windows = << >>
    /\ counted = << >>
    /\ data_dir \in SUBSET (1..MaxOldFiles)

\* Lines 267-290: the count query of the next subcommunity.  A raised count
\* and a count of zero both go on to the next subcommunity.
ExportCount ==
    /\ epc = "partition"
    /\ subcommunity_idx <= Len(partitions)
    /\ LET total_count == partitions[subcommunity_idx]
       IN  IF total_count = CountFails \/ total_count = 0
           THEN /\ subcommunity_idx' =
                      IF total_count = CountFails
                      THEN AfterPartitionError(subcommunity_idx, Len(partitions))
                      ELSE subcommunity_idx + 1
                /\ UNCHANGED <<epc, num_batches, batch_num>>
           ELSE /\ num_batches' = NumBatches(total_count, batch_size)
                /\ batch_num' = 1
                /\ epc' = "window"
                /\ UNCHANGED subcommunity_idx
    /\ counted' = Append(counted, subcommunity_idx)
    /\ UNCHANGED <<partitions, batch_size, global_batch_counter, files, windows>>
    /\ UNCHANGED data_dir

\* Mutation: the files are numbered by the batch number within the subcommunity.
FileNumber_PerPartition(counter, n) == n

\* Line 311: data_<global_batch_counter>.csv.
FileNumber(counter, n) == counter

Window(outcome) ==
    [partition |-> subcommunity_idx, batch_num |-> batch_num,
     skip |-> WindowSkip(batch_num, batch_size), limit |-> batch_size,
     file |-> FileNumber(global_batch_counter + 1, batch_num), outcome |-> outcome]

\* Lines 294-316: the window returns records, which are saved to
\* data_<global_batch_counter>.csv.
ExportWindowSaved ==
    /\ epc = "window"
    /\ batch_num <= num_batches
    /\ global_batch_counter' = global_batch_counter + 1
    /\ windows' = Append(windows, Window("records"))
    /\ files' = files \cup {FileNumber(global_batch_counter', batch_num)}
    /\ batch_num' = batch_num + 1
    /\ UNCHANGED <<partitions, batch_size, epc, subcommunity_idx, num_batches,
                   counted>>
    /\ data_dir' = data_dir \cup {FileNumber(global_batch_counter', batch_num)}

\* Lines 304-307: the window returns no records; break.
ExportWindowEmpty ==
    /\ epc = "window"
    /\ batch_num <= num_batches
    /\ global_batch_counter' = global_batch_counter + 1
    /\ windows' = Append(windows, Window("empty"))
    /\ subcommunity_idx' = subcommunity_idx + 1
    /\ epc' = "partition"
    /\ UNCHANGED <<partitions, batch_size, num_batches, batch_num, files, counted>>
    /\ UNCHANGED data_dir

\* Lines 318-330: the window raises; the exception is raised again, caught by
\* the handler of the subcommunity, and the next subcommunity follows.
ExportWindowFails ==
    /\ epc = "window"
    /\ batch_num <= num_batches
    /\ global_batch_counter' = global_batch_counter + 1
    /\ windows' = Append(windows, Window("error"))
    /\ subcommunity_idx' = AfterPartitionError(subcommunity_idx, Len(partitions))
    /\ epc' = "partition"
    /\ UNCHANGED <<partitions, batch_size, num_batches, batch_num, files, counted>>
    /\ UNCHANGED data_dir

\* Lines 323-324: the inner loop is exhausted.
ExportPartitionDone ==
    /\ epc = "window"
    /\ batch_num > num_batches
    /\ subcommunity_idx' = subcommunity_idx + 1
    /\ epc' = "partition"
    /\ UNCHANGED <<partitions, batch_size, num_batches, batch_num,
                   global_batch_counter, files, windows, counted>>
    /\ UNCHANGED data_dir

\* Lines 332-340: the outer loop is exhausted.
ExportFinish ==
    /\ epc = "partition"
    /\ subcommunity_idx > Len(partitions)
    /\ epc' = "done"
    /\ UNCHANGED <<partitions, batch_size, subcommunity_idx, num_batches,
                   batch_num, global_batch_counter, files, windows, counted>>
    /\ UNCHANGED data_dir

ExportFrame == UNCHANGED <<sortVars, mapVars, storeVars, loadVars, runVars,
        typesVars,
        readVars,
        raceVars,
        epochVars>>

ExportNext ==
    \/ ExportCount /\ ExportFrame
    \/ ExportWindowSaved /\ ExportFrame
    \/ ExportWindowEmpty /\ ExportFrame
    \/ ExportWindowFails /\ ExportFrame
    \/ ExportPartitionDone /\ ExportFrame
    \/ ExportFinish /\ ExportFrame

-----------------------------------------------------------------------------
(* migrate_asset_types (asset_type_migration.py) *)

MaxTypeRecords == 2

\* A child_name that read_asset_type_csv leaves non-empty and clean_value
\* empties: a quote character between two apostrophes.
QuoteText == -2

TypeNames == {None, 1, 2, QuoteText}

\* Lines 124-130.
clean_value(value) == IF value = QuoteText THEN None ELSE value

\* Lines 90-166: records without a name are skipped, the others are numbered
\* from start_id.
map_asset_types_to_rows(type_data, start_id) ==
    LET kept == SelectSeq(type_data,
                          LAMBDA record : /\ record.child_name # None
                                          /\ clean_value(record.child_name) # None)
    IN  [i \in 1..Len(kept) |->
            [id |-> start_id + i - 1, name |-> clean_value(kept[i].child_name)]]

\* Mutation: the ids are numbered from 1 on every run.
StartId_FromOne(table) == 1

\* Lines 192-198: SELECT COALESCE(MAX(id), 0) + 1.
StartId(table) == 1 + SetMax({r.id : r \in table} \cup {0})

\* Lines 210-227: INSERT ... ON CONFLICT (id) DO UPDATE.
UpsertAssetTypes(table, new_rows) ==
    {r \in table : \A i \in DOMAIN new_rows : new_rows[i].id # r.id}
        \cup Range(new_rows)

\* The statement raises when the asset_type table has a unique constraint on
\* name and a row to insert repeats a stored name or the name of another row.
NameConflict(table, new_rows) ==
    \/ \E i \in DOMAIN new_rows : \E r \in table :
          r.name = new_rows[i].name /\ r.id # new_rows[i].id
    \/ \E i \in DOMAIN new_rows : \E j \in DOMAIN new_rows :
          i # j /\ new_rows[i].name = new_rows[j].name

TypesIdle ==
    /\ asset_type_data = << >>
    /\ name_unique = FALSE
    /\ raised = 0
    /\ type_rows = << >>

\* The file AssetTypeToMigrate.csv as read_asset_type_csv returns it, the
\* schema of the target table (the repository has no DDL: name may or may not
\* carry a unique constraint), and the stored asset types.
TypesInit ==
    /\ \E n \in 0..MaxTypeRecords :
          asset_type_data \in [1..n -> [child_name : TypeNames, parent_name : {None, 1}]]
    /\ name_unique \in BOOLEAN
    /\ raised = 0
    /\ type_rows = << >>
    /\ db \in {EmptyStore,
               [EmptyStore EXCEPT !.asset_type = {[id |-> 1, name |-> 1]}]}
    /\ choice = 0
    /\ csv_to_point_id_map = EmptyTable
    /\ runs = 0
    /\ before = db

\* migrate_asset_types returns and pg_connection commits.
TypesMigrated ==
    /\ runs < MaxRuns
    /\ LET new_rows == map_asset_types_to_rows(asset_type_data, StartId(db.asset_type))
       IN  /\ ~(name_unique /\ NameConflict(db.asset_type, new_rows))
           /\ db' = [db EXCEPT !.asset_type = UpsertAssetTypes(@, new_rows)]
           /\ type_rows' = new_rows
    /\ before' = db
    /\ runs' = runs + 1
    /\ UNCHANGED <<choice, csv_to_point_id_map, asset_type_data, name_unique, raised>>

\* Lines 229-232: the INSERT raises, the exception is raised again and
\* pg_connection rolls the transaction back.
TypesRaises ==
    /\ runs < MaxRuns
    /\ LET new_rows == map_asset_types_to_rows(asset_type_data, StartId(db.asset_type))
       IN  /\ name_unique /\ NameConflict(db.asset_type, new_rows)
           /\ type_rows' = new_rows
    /\ before' = db
    /\ runs' = runs + 1
    /\ raised' = raised + 1
    /\ UNCHANGED <<db, choice, csv_to_point_id_map, asset_type_data, name_unique>>

TypesFrame == UNCHANGED <<sortVars, mapVars, runVars, exportVars,
        readVars,
        raceVars,
        epochVars>>

TypesNext ==
    \/ TypesMigrated /\ TypesFrame
    \/ TypesRaises /\ TypesFrame

-----------------------------------------------------------------------------
(* read_multiple_csv_files and the head of run_migration *)

MaxFiles == 3
MaxFileRecords == 2

\* The staging files are named data_<digits>.csv and a name is written as
\* its digits: data_2.csv is <<2>>, data_10.csv is <<1, 0>>, data_02.csv is
\* <<0, 2>>.
StagingNames == {<<2>>, <<3>>, <<0, 2>>, <<1, 0>>, <<1, 2>>}

\* The pattern data_*.csv, and the single file name data_1.csv.
Wildcard == << >>
Requested == {Wildcard, <<1>>}

\* int(part) of a digit string.
RECURSIVE IntOf(_)
IntOf(digits) ==
    IF digits = << >> THEN 0
    ELSE 10 * IntOf(SubSeq(digits, 1, Len(digits) - 1)) + digits[Len(digits)]

\* Mutation: the names are compared as text, "10" before "2".
natural_sort_key_Text(name) ==
    11 * (name[1] + 1) + (IF Len(name) >= 2 THEN name[2] + 1 ELSE 0)

\* Lines 87-90: ('data_', int(digits), '.csv'); the text parts are the same
\* for every staging file, so the key is the number.
natural_sort_key(name) == IntOf(name)

\* Lines 66-80: a name without wildcard loses its trailing digits and becomes
\* data_*.csv, so either request matches every staging file.
Matching(pattern, names) ==
    LET base_prefix_pattern == IF pattern = Wildcard THEN Wildcard
                               ELSE SubSeq(pattern, 1, 0)
    IN  IF base_prefix_pattern = Wildcard THEN names ELSE {}

\* Line 92: sorted() is stable.
RECURSIVE SortedFiles(_)
SortedFiles(fs) ==
    IF fs = << >> THEN << >>
    ELSE LET rest == SortedFiles(Tail(fs))
             k    == natural_sort_key(Head(fs))
         IN  SelectSeq(rest, LAMBDA f : natural_sort_key(f) < k)
                 \o <<Head(fs)>>
                 \o SelectSeq(rest, LAMBDA f : natural_sort_key(f) >= k)

\* read_csv_data: the records of a file, each naming a building and carrying
\* its line number.
FileRecords(name, n) ==
    [line \in 1..n |->
        StagedRecord(line, None, IntOf(name), None, None, None, None, None, "v1")]

\* Mutation: the exception is logged and run_migration goes on to the menu.
AfterReadError_Menu(e) == "menu"

\* Lines 893-896: except Exception: ... return.
AfterReadError(e) == "returned"

ReadIdle ==
    /\ staging = << >>
    /\ request = Wildcard
    /\ glob_order = << >>
    /\ csv_files = << >>
    /\ file_idx = 0
    /\ all_rows = << >>
    /\ rdpc = "idle"
    /\ read_error = ""

\* The data directory: up to MaxFiles files of up to MaxFileRecords records,
\* listed by glob in any order.
ReadInit ==
    /\ \E names \in SUBSET StagingNames :
          /\ Cardinality(names) <= MaxFiles
          /\ staging \in [names -> 0..MaxFileRecords]
          /\ glob_order \in Perms(names)
    /\ request \in Requested
    /\ csv_files = << >>
    /\ file_idx = 0
    /\ all_rows = << >>
    /\ rdpc = "start"
    /\ read_error = ""
    /\ data = << >>
    /\ asset_type_csv = << >>
    /\ mapper = ""
    /\ mapped = << >>
    /\ db \in {EmptyStore, MigrateBuildings(EmptyStore, FileRecords(<<3>>, 1))}
    /\ choice = 0
    /\ csv_to_point_id_map = EmptyTable
    /\ runs = 0
    /\ before = db

\* Lines 80-84: no file matches; FileNotFoundError.
ReadNothingMatches ==
    /\ rdpc = "start"
    /\ Matching(request, DOMAIN staging) = {}
    /\ read_error' = "FileNotFoundError"
    /\ rdpc' = "raised"
    /\ UNCHANGED <<staging, request, glob_order, csv_files, file_idx, all_rows,
                   data, db, choice>>

\* Lines 80-92: the matching files, sorted.
ReadSort ==
    /\ rdpc = "start"
    /\ Matching(request, DOMAIN staging) # {}
    /\ csv_files' = SortedFiles(SelectSeq(glob_order,
                        LAMBDA f : f \in Matching(request, DOMAIN staging)))
    /\ file_idx' = 1
    /\ all_rows' = << >>
    /\ rdpc' = "reading"
    /\ UNCHANGED <<staging, request, glob_order, read_error, data, db, choice>>

\* Lines 104-107: one file is read and its records appended.
ReadFile ==
    /\ rdpc = "reading"
    /\ file_idx <= Len(csv_files)
    /\ all_rows' = all_rows \o FileRecords(csv_files[file_idx],
                                           staging[csv_files[file_idx]])
    /\ file_idx' = file_idx + 1
    /\ UNCHANGED <<staging, request, glob_order, csv_files, rdpc, read_error,
                   data, db, choice>>

\* Lines 108-111: reading a file raises, and the exception is raised again.
ReadFileRaises ==
    /\ rdpc = "reading"
    /\ file_idx <= Len(csv_files)
    /\ read_error' = "Exception"
    /\ rdpc' = "raised"
    /\ UNCHANGED <<staging, request, glob_order, csv_files, file_idx, all_rows,
                   data, db, choice>>

\* Lines 113-117 and 884-892: the combined records are returned.
ReadReturns ==
    /\ rdpc = "reading"
    /\ file_idx > Len(csv_files)
    /\ data' = all_rows
    /\ rdpc' = "menu"
    /\ UNCHANGED <<staging, request, glob_order, csv_files, file_idx, all_rows,
                   read_error, db, choice>>

\* Lines 893-896: run_migration logs the exception and returns.
RunReadFailed ==
    /\ rdpc = "raised"
    /\ rdpc' = AfterReadError(read_error)
    /\ UNCHANGED <<staging, request, glob_order, csv_files, file_idx, all_rows,
                   read_error, data, db, choice>>

\* Lines 898, 903-905 and pg_connection's commit: the building load is chosen.
RunLoadsBuildings ==
    /\ rdpc = "menu"
    /\ choice' = 2
    /\ db' = MigrateBuildings(db, data)
    /\ rdpc' = "completed"
    /\ UNCHANGED <<staging, request, glob_order, csv_files, file_idx, all_rows,
                   read_error, data>>

\* Lines 898 and 915-917: Exit is chosen.
RunExits ==
    /\ rdpc = "menu"
    /\ choice' = 6
    /\ rdpc' = "returned"
    /\ UNCHANGED <<staging, request, glob_order, csv_files, file_idx, all_rows,
                   read_error, data, db>>

ReadFrame ==
    UNCHANGED <<sortVars, asset_type_csv, mapper, mapped, csv_to_point_id_map,
                loadVars, runVars, exportVars, typesVars, raceVars,
                epochVars>>

ReadNext ==
    \/ ReadNothingMatches /\ ReadFrame
    \/ ReadSort /\ ReadFrame
    \/ ReadFile /\ ReadFrame
    \/ ReadFileRaises /\ ReadFrame
    \/ ReadReturns /\ ReadFrame
    \/ RunReadFailed /\ ReadFrame
    \/ RunLoadsBuildings /\ ReadFrame
    \/ RunExits /\ ReadFrame

-----------------------------------------------------------------------------
(* migrate_points run by several loader processes against one store *)

MaxLoaders == 2

\* The point names the loaders stage.
RaceNames == {1, 2}

\* The data_point_rows of one loader: get_data_point_rows keeps one row per
\* name.
RaceRows == {<<1>>, <<2>>, <<1, 2>>, <<2, 1>>}

\* Mutation: the result of the SELECT is ignored.
SeesRow_Never(visible, name) == FALSE

\* Lines 715-722: SELECT ... WHERE name = %s LIMIT 1; if existing_result.
\* visible: the committed rows and the rows of the loader's own transaction.
SeesRow(visible, name) == ExistingDataPoints(visible, name) # {}

RaceIdle ==
    /\ loaders = 0
    /\ lnames = << >>
    /\ lpc = << >>
    /\ lrow = << >>
    /\ pending = << >>
    /\ blind = {}

\* One to MaxLoaders processes have reached the loop of migrate_points; the
\* store holds no data point or the point named 1.
RaceInit ==
    /\ loaders \in 1..MaxLoaders
    /\ lnames \in [1..loaders -> RaceRows]
    /\ lpc = [p \in 1..loaders |-> "select"]
    /\ lrow = [p \in 1..loaders |-> 1]
    /\ pending = [p \in 1..loaders |-> {}]
    /\ blind = {}
    /\ db \in {EmptyStore,
               [EmptyStore EXCEPT !.data_point =
                   {[id |-> 1, point_id |-> 1, name |-> 1, val |-> "v1"]}]}
    /\ choice = 5
    /\ csv_to_point_id_map = EmptyTable
    /\ runs = 0
    /\ before = db

\* The loop goes on to the next row, or ends (line 760 follows).
AfterRow(p) == IF lrow[p] < Len(lnames[p]) THEN "select" ELSE "commit"

\* Lines 715-728: loader p looks its current name up and finds a row.
RaceSelectFound(p) ==
    /\ lpc[p] = "select"
    /\ SeesRow(db.data_point \cup pending[p], lnames[p][lrow[p]])
    /\ lpc' = [lpc EXCEPT ![p] = AfterRow(p)]
    /\ lrow' = [lrow EXCEPT ![p] = IF AfterRow(p) = "select" THEN @ + 1 ELSE @]
    /\ UNCHANGED <<loaders, lnames, pending, blind, db>>

\* Lines 715-722: loader p looks its current name up and finds no row.
RaceSelectNone(p) ==
    /\ lpc[p] = "select"
    /\ ~SeesRow(db.data_point \cup pending[p], lnames[p][lrow[p]])
    /\ lpc' = [lpc EXCEPT ![p] = "insert"]
    /\ UNCHANGED <<loaders, lnames, lrow, pending, blind, db>>

\* Lines 729-747: loader p inserts the row under a generated id, inside its
\* transaction.
RaceInsert(p) ==
    /\ lpc[p] = "insert"
    /\ LET used == {r.id : r \in db.data_point \cup UNION Range(pending)}
           data_point_id == NewUuid(used)
       IN  pending' = [pending EXCEPT ![p] = @ \cup
                          {[id |-> data_point_id,
                            point_id |-> NewPointId(data_point_id),
                            name |-> lnames[p][lrow[p]], val |-> "v1"]}]
    /\ blind' = blind \cup {<<p, lnames[p][lrow[p]]>>}
    /\ lpc' = [lpc EXCEPT ![p] = AfterRow(p)]
    /\ lrow' = [lrow EXCEPT ![p] = IF AfterRow(p) = "select" THEN @ + 1 ELSE @]
    /\ UNCHANGED <<loaders, lnames, db>>

\* Line 760: conn.commit().
RaceCommit(p) ==
    /\ lpc[p] = "commit"
    /\ db' = [db EXCEPT !.data_point = @ \cup pending[p]]
    /\ pending' = [pending EXCEPT ![p] = {}]
    /\ lpc' = [lpc EXCEPT ![p] = "done"]
    /\ UNCHANGED <<loaders, lnames, lrow, blind>>

RaceSelectsFound == \E p \in 1..loaders : RaceSelectFound(p)
RaceSelectsNone == \E p \in 1..loaders : RaceSelectNone(p)
RaceInserts == \E p \in 1..loaders : RaceInsert(p)
RaceCommits == \E p \in 1..loaders : RaceCommit(p)

RaceFrame ==
    UNCHANGED <<sortVars, mapVars, choice, csv_to_point_id_map, loadVars,
                runVars, exportVars, typesVars, readVars, epochVars>>

RaceNext ==
    \/ RaceSelectsFound /\ RaceFrame
    \/ RaceSelectsNone /\ RaceFrame
    \/ RaceInserts /\ RaceFrame
    \/ RaceCommits /\ RaceFrame

-----------------------------------------------------------------------------
(* convert_epoch_to_timestamp and the epoch fields of the Row Mapper *)

\* A staged text is a sequence of characters: the digits 0..9 and Letter,
\* which stands for a character int() does not accept.
Letter == 10

MaxMantissa == 17
MaxExponent == 14

RECURSIVE DigitsOf(_)
DigitsOf(n) == IF n < 10 THEN <<n>> ELSE Append(DigitsOf(n \div 10), n % 10)

Zeros(k) == [i \in 1..k |-> 0]

\* The decimal text of m * 10^e.
Numeral(m, e) == DigitsOf(m) \o Zeros(e)

EmptyText == << >>

NumericTexts == {Numeral(m, e) : m \in 0..MaxMantissa, e \in 0..MaxExponent}

NonNumericTexts == {<<Letter>>, <<1, Letter, 5>>, <<Letter, 0>>}

\* What record.get(field) returns: None, or the text of the CSV cell.
NoneValue == [is_none |-> TRUE, text |-> EmptyText]

TextValue(text) == [is_none |-> FALSE, text |-> text]

EpochInputs ==
    {NoneValue} \cup {TextValue(t) : t \in {EmptyText} \cup NumericTexts \cup NonNumericTexts}

\* Python truthiness of a staged value: None and "" are falsy, every other
\* text, "0" included, is truthy.
Truthy(value) == ~value.is_none /\ value.text # EmptyText

IsDigits(text) == text # EmptyText /\ \A i \in DOMAIN text : text[i] \in 0..9

RECURSIVE StripZeros(_)
StripZeros(digits) ==
    IF Len(digits) > 1 /\ Head(digits) = 0 THEN StripZeros(Tail(digits))
    ELSE digits

\* int(text) for a text of digits: the integer as its digits without leading
\* zeros (Python integers are unbounded).
ParseInt(text) == StripZeros(text)

\* a > b for integers given by their digits.
GreaterThan(a, b) ==
    \/ Len(a) > Len(b)
    \/ /\ Len(a) = Len(b)
       /\ \E i \in DOMAIN a : a[i] > b[i] /\ \A j \in 1..(i - 1) : a[j] = b[j]

\* Line 18: 1_000_000_000_000.
MillisThreshold == <<1>> \o Zeros(12)

\* datetime.max: 9999-12-31 23:59:59 UTC is second 253402300799.
MaxTimestamp == <<2, 5, 3, 4, 0, 2, 3, 0, 0, 7, 9, 9>>

NullResult == [kind |-> "null", sec |-> << >>, frac |-> << >>]

RaisedValueError == [kind |-> "raises", sec |-> << >>, frac |-> << >>]

\* datetime.fromtimestamp(sec.frac, tz=utc): the instant, or ValueError
\* "year is out of range" past datetime.max.
fromtimestamp(sec, frac) ==
    IF GreaterThan(sec, MaxTimestamp) THEN RaisedValueError
    ELSE [kind |-> "instant", sec |-> sec, frac |-> frac]

\* value / 1000: whole seconds and the three digits of the milliseconds.
WholeSeconds(n) == StripZeros(SubSeq(Zeros(3) \o n, 1, Len(n)))

Milliseconds(n) == SubSeq(Zeros(3) \o n, Len(n) + 1, Len(n) + 3)

\* Lines 9-23 of utils.py.
convert_epoch_to_timestamp(value) ==
    IF ~Truthy(value) THEN NullResult
    ELSE IF ~IsDigits(value.text) THEN NullResult
    ELSE LET n == ParseInt(value.text) IN
         IF GreaterThan(n, MillisThreshold)
         THEN fromtimestamp(WholeSeconds(n), Milliseconds(n))
         ELSE fromtimestamp(n, Zeros(3))

\* convert_epoch_to_timestamp(record.get(f)) if record.get(f) else None
MapEpochField(value) ==
    IF Truthy(value) THEN convert_epoch_to_timestamp(value) ELSE NullResult

BuildingEpochFields ==
    {"building_open_time", "building_close_time", "building_created_on"}

AssetEpochFields == {"created_on", "asset_updated_on"}

EpochIdle ==
    /\ epoch_field = ""
    /\ epoch_value = NoneValue
    /\ epoch_result = NullResult
    /\ epoch_pc = "idle"

EpochInit ==
    /\ epoch_field \in BuildingEpochFields \cup AssetEpochFields
    /\ epoch_value \in EpochInputs
    /\ epoch_result = NullResult
    /\ epoch_pc = "staged"

\* convert_epoch_to_timestamp(value) returns.
ConvertEpoch ==
    /\ epoch_pc = "staged"
    /\ convert_epoch_to_timestamp(epoch_value).kind # "raises"
    /\ epoch_result' = convert_epoch_to_timestamp(epoch_value)
    /\ epoch_pc' = "converted"
    /\ UNCHANGED <<epoch_field, epoch_value>>

\* convert_epoch_to_timestamp(value) raises out of fromtimestamp.
ConvertEpochRaises ==
    /\ epoch_pc = "staged"
    /\ convert_epoch_to_timestamp(epoch_value).kind = "raises"
    /\ epoch_result' = RaisedValueError
    /\ epoch_pc' = "raised"
    /\ UNCHANGED <<epoch_field, epoch_value>>

\* get_building_rows fills the field of the emitted row.
MapBuildingEpoch ==
    /\ epoch_pc = "staged"
    /\ epoch_field \in BuildingEpochFields
    /\ MapEpochField(epoch_value).kind # "raises"
    /\ epoch_result' = MapEpochField(epoch_value)
    /\ epoch_pc' = "mapped"
    /\ UNCHANGED <<epoch_field, epoch_value>>

\* get_asset_rows fills the field of the emitted row.
MapAssetEpoch ==
    /\ epoch_pc = "staged"
    /\ epoch_field \in AssetEpochFields
    /\ MapEpochField(epoch_value).kind # "raises"
    /\ epoch_result' = MapEpochField(epoch_value)
    /\ epoch_pc' = "mapped"
    /\ UNCHANGED <<epoch_field, epoch_value>>

\* The mapper does not catch the ValueError of the conversion.
MapEpochRaises ==
    /\ epoch_pc = "staged"
    /\ MapEpochField(epoch_value).kind = "raises"
    /\ epoch_result' = RaisedValueError
    /\ epoch_pc' = "map_raised"
    /\ UNCHANGED <<epoch_field, epoch_value>>

EpochFrame ==
    UNCHANGED <<sortVars, mapVars, storeVars, loadVars, runVars, exportVars,
                typesVars, readVars, raceVars>>

EpochNext ==
    \/ ConvertEpoch /\ EpochFrame
    \/ ConvertEpochRaises /\ EpochFrame
    \/ MapBuildingEpoch /\ EpochFrame
    \/ MapAssetEpoch /\ EpochFrame
    \/ MapEpochRaises /\ EpochFrame

-----------------------------------------------------------------------------
(* Specifications *)

InitSort ==
    SortInit /\ MapIdle /\ StoreIdle /\ LoadIdle /\ RunIdle /\ ExportIdle /\ TypesIdle /\ ReadIdle /\ RaceIdle /\ EpochIdle

SpecSort == InitSort /\ [][SortNext]_vars

\* The function runs to its end: a step that can be taken is taken.
SpecSortRuns == InitSort /\ [][SortNext]_vars /\ WF_vars(SortNext)

InitMap ==
    SortIdle /\ MapInit /\ StoreIdle /\ LoadIdle /\ RunIdle /\ ExportIdle /\ TypesIdle /\ ReadIdle /\ RaceIdle /\ EpochIdle

SpecMap == InitMap /\ [][MapNext]_vars

InitLoad == SortIdle /\ LoadInit /\ RunIdle /\ ExportIdle /\ TypesIdle /\ ReadIdle /\ RaceIdle /\ EpochIdle

SpecLoad == InitLoad /\ [][LoadNext]_vars

InitRun == SortIdle /\ RunInit /\ LoadIdle /\ ExportIdle /\ TypesIdle /\ ReadIdle /\ RaceIdle /\ EpochIdle

SpecRun == InitRun /\ [][RunNext]_vars

InitExport ==
    SortIdle /\ MapIdle /\ StoreIdle /\ LoadIdle /\ RunIdle /\ ExportInit /\ TypesIdle /\ ReadIdle /\ RaceIdle /\ EpochIdle

SpecExport == InitExport /\ [][ExportNext]_vars

InitTypes ==
    SortIdle /\ MapIdle /\ TypesInit /\ RunIdle /\ ExportIdle /\ ReadIdle /\ RaceIdle /\ EpochIdle

SpecTypes == InitTypes /\ [][TypesNext]_vars

InitRead ==
    SortIdle /\ ReadInit /\ RunIdle /\ ExportIdle /\ TypesIdle /\ RaceIdle /\ EpochIdle

SpecRead == InitRead /\ [][ReadNext]_vars

InitRace ==
    SortIdle /\ MapIdle /\ RaceInit /\ RunIdle /\ ExportIdle /\ TypesIdle /\ ReadIdle /\ EpochIdle

SpecRace == InitRace /\ [][RaceNext]_vars

InitEpoch ==
    SortIdle /\ MapIdle /\ StoreIdle /\ LoadIdle /\ RunIdle /\ ExportIdle /\ TypesIdle /\ ReadIdle /\ RaceIdle /\ EpochInit

SpecEpoch == InitEpoch /\ [][EpochNext]_vars

-----------------------------------------------------------------------------
(* Claims about sort_rows_for_foreign_key *)

BatchIds == {rows[i].client_id : i \in DOMAIN rows} \ {None}

\* The colony references of the batch contain a cycle through two or more
\* ids: some non-empty set of ids in which every id has a parent in the set.
HasReferenceCycle ==
    \E S \in SUBSET BatchIds :
        /\ S # {}
        /\ \A c \in S : \E i \in DOMAIN rows :
              rows[i].client_id = c /\ rows[i].colony \in S \ {c}

ParentsFirst ==
    \A r \in DOMAIN sorted_rows : \A p \in DOMAIN sorted_rows :
        (/\ p # r
         /\ sorted_rows[r].colony # None
         /\ sorted_rows[p].client_id = sorted_rows[r].colony) => p < r

\* C1 (as stated): in the returned list every row whose colony is the client
\* id of another row comes after that row, for every batch.
C1_ParentsFirstAlways == spc = "done" => ParentsFirst

\* C1 (amended): when the colony references of the batch contain no cycle,
\* every returned row whose colony is the client id of another returned row
\* comes after that row.
C1_ParentsFirstAcyclic == (spc = "done" /\ ~HasReferenceCycle) => ParentsFirst

\* A two-level chain given child-first is returned parent-first.
C1_Witness ==
    /\ spc = "done"
    /\ ~HasReferenceCycle
    /\ Len(rows) = 3 /\ Len(sorted_rows) = 3
    /\ rows[1].colony = rows[2].client_id /\ rows[1].colony # rows[1].client_id
    /\ rows[2].colony = rows[3].client_id /\ rows[2].colony # rows[2].client_id
    /\ sorted_rows[1] = rows[3]

\* C7: every returned row's colony is null or the client id of a row of the
\* batch (a colony naming no row of the batch has been replaced by null).
C7_ColonyResolved ==
    spc = "done" =>
        \A r \in DOMAIN sorted_rows :
            sorted_rows[r].colony = None \/ sorted_rows[r].colony \in BatchIds

-----------------------------------------------------------------------------
(* Claims about the row mappers *)

SetMin(S) == CHOOSE m \in S : \A x \in S : m <= x

\* outRows holds exactly one row for every key carried by a record of recs,
\* built from the first record carrying it, and no other row.
OneRowPerKeyFromFirst(recs, outRows, Has(_), Key(_), Row(_), RowKey(_)) ==
    LET carrying == {i \in DOMAIN recs : Has(recs[i])}
        keys == {Key(recs[i]) : i \in carrying}
        First(k) == SetMin({i \in carrying : Key(recs[i]) = k})
    IN  /\ \A k \in keys :
            \E j \in DOMAIN outRows :
                /\ outRows[j] = Row(recs[First(k)])
                /\ \A j2 \in DOMAIN outRows : RowKey(outRows[j2]) = k => j2 = j
        /\ \A j \in DOMAIN outRows : RowKey(outRows[j]) \in keys

-----------------------------------------------------------------------------
(* Claims about the loads *)

C4_SecondPointsRunReuses ==
    (choice = 5 /\ runs >= 2) =>
        /\ db.data_point = before.data_point
        /\ db.asset_point = before.asset_point
        /\ db.asset_type_point = before.asset_type_point
        /\ \A i \in DOMAIN data :
              data[i].point_name # None =>
                  \E r \in before.data_point : r.name = data[i].point_name
        /\ \A c \in DOMAIN csv_to_point_id_map :
              \E r \in before.data_point : \E i \in DOMAIN data :
                  /\ data[i].data_point_id = c
                  /\ data[i].point_name = r.name
                  /\ csv_to_point_id_map[c] = r.point_id
                  /\ r.point_id = r.id

\* migrate_points has run twice on two data points with links of both kinds.
C4_Witness ==
    /\ choice = 5 /\ runs = 2
    /\ Cardinality(db.data_point) = 2
    /\ db.asset_point # {}
    /\ db.asset_type_point # {}
    /\ DOMAIN csv_to_point_id_map # {}

\* C8: after migrate_assets every stored asset-space pair names a stored
\* space, and every staged pair (asset id and space id both present) whose
\* space is stored has been inserted; the load completed.
C8_AssetSpacesOfStoredSpaces ==
    (choice = 4 /\ runs >= 1) =>
        /\ \A pr \in DOMAIN db.asset_spaces : pr[2] \in DOMAIN db.space
        /\ \A i \in DOMAIN data :
              (/\ data[i].asset_id # None
               /\ data[i].spaces_id # None
               /\ data[i].spaces_id \in DOMAIN db.space)
              => <<data[i].asset_id, data[i].spaces_id>> \in DOMAIN db.asset_spaces

\* One staged pair names the stored space and is inserted, another names a
\* space that is not stored and is left out.
C8_Witness ==
    /\ choice = 4 /\ runs = 1
    /\ \E i \in DOMAIN data : \E j \in DOMAIN data :
          /\ <<data[i].asset_id, data[i].spaces_id>> \in DOMAIN db.asset_spaces
          /\ data[j].asset_id # None
          /\ data[j].spaces_id \notin {None, NullText}
          /\ data[j].spaces_id \notin DOMAIN db.space
          /\ <<data[j].asset_id, data[j].spaces_id>> \notin DOMAIN db.asset_spaces

FirstWithSub(k) == SetMin({i \in DOMAIN data : data[i].sub_community_id = k})

StoredSpellings(c) ==
    {s \in Range(db.clients) : c # None /\ Lower(s) = Lower(c)}

\* C9: after migrate_subcommunities, a staged subcommunity whose community_id
\* matches a stored client id without regard to letter case is stored with a
\* community_id equal to one of the stored client ids it matches; a staged
\* subcommunity with no match is not loaded.
C9_StoredSpellingOrExcluded ==
    (choice = 1 /\ runs >= 1) =>
        \A k \in {data[i].sub_community_id : i \in DOMAIN data} \ {None} :
            LET com == data[FirstWithSub(k)].community_id
            IN  IF StoredSpellings(com) # {}
                THEN /\ k \in DOMAIN db.sub_community
                     /\ db.sub_community[k].community_id \in StoredSpellings(com)
                ELSE k \notin DOMAIN db.sub_community

\* One subcommunity is stored under a spelling that differs from the staged
\* one, another names a community that is not stored and is left out.
C9_Witness ==
    /\ choice = 1 /\ runs = 1
    /\ Len(data) = 2
    /\ data[1].sub_community_id \in DOMAIN db.sub_community
    /\ db.sub_community[data[1].sub_community_id].community_id # data[1].community_id
    /\ data[2].sub_community_id \notin DOMAIN db.sub_community \cup {None}
    /\ data[2].community_id # None

-----------------------------------------------------------------------------
(* Claims about the runner *)

\* C5 (as stated): when an exception is raised inside a migration step, none
\* of that step's writes remain in the target store: the committed tables are
\* those the store held when the step began.
C5_FailedStepLeavesNothing == failed # 0 => db = step_start

\* Every row of the tables old is a row of the tables new.
StoreContains(new, old) ==
    /\ Range(old.clients) \subseteq Range(new.clients)
    /\ old.types \subseteq new.types
    /\ old.asset_type \subseteq new.asset_type
    /\ \A name \in {"sub_community", "building", "space", "assets", "asset_spaces"} :
          \A k \in DOMAIN old[name] :
              k \in DOMAIN new[name] /\ new[name][k] = old[name][k]
    /\ old.data_point \subseteq new.data_point
    /\ old.asset_point \subseteq new.asset_point
    /\ old.asset_type_point \subseteq new.asset_type_point

\* C6: once migration k has raised, the runner has halted, no migration after
\* k has been started, and the store still holds every row that the
\* migrations before k had committed.
C6_HaltsAndKeepsEarlierCommits ==
    failed # 0 =>
        /\ rpc = "halted"
        /\ started = 1..failed
        /\ StoreContains(db, step_start)

\* Running all migrations, the second one raised after the first had
\* committed its rows; five migrations were never started.
C6_Witness ==
    /\ failed = 2
    /\ rpc = "halted"
    /\ selected = MIGRATION_FACTORIES
    /\ started = {1, 2}
    /\ db.types = StagedTypeNames
    /\ db.asset_type = {}

-----------------------------------------------------------------------------
(* Claims about the export *)

WindowsOf(q) == SelectSeq(windows, LAMBDA w : w.partition = q)

\* Subcommunity q has been processed and each of its windows returned records.
ExportedInFull(q) ==
    /\ q \in DOMAIN partitions
    /\ q < subcommunity_idx
    /\ partitions[q] >= 1
    /\ \A i \in DOMAIN WindowsOf(q) : WindowsOf(q)[i].outcome = "records"

\* C10: for a subcommunity with T >= 1 records whose windows all returned
\* records, the number n of windows issued is ceil(T / S), that is
\* (n - 1) * S < T <= n * S; window k uses SKIP (k - 1) * S and LIMIT S; and
\* every offset 0..T-1 lies in exactly one window.
C10_WindowsCoverPartition ==
    \A q \in DOMAIN partitions :
        ExportedInFull(q) =>
            LET ws == WindowsOf(q)
                T  == partitions[q]
                S  == batch_size
            IN  /\ (Len(ws) - 1) * S < T
                /\ T <= Len(ws) * S
                /\ \A k \in DOMAIN ws :
                      ws[k].skip = (k - 1) * S /\ ws[k].limit = S
                /\ \A o \in 0..(T - 1) :
                      Cardinality({k \in DOMAIN ws :
                          ws[k].skip <= o /\ o < ws[k].skip + ws[k].limit}) = 1

\* A subcommunity whose count is neither below nor a multiple of the batch
\* size has been exported in full.
C10_Witness ==
    \E q \in DOMAIN partitions :
        /\ ExportedInFull(q)
        /\ partitions[q] > batch_size
        /\ partitions[q] % batch_size # 0
        /\ Len(WindowsOf(q)) >= 2

\* C11: no two windows of one export run that write a file write the same
\* file: the windows that returned records carry pairwise distinct file
\* numbers, whether they belong to one subcommunity or to several.
C11_OneWindowPerFile ==
    \A i \in DOMAIN windows : \A j \in DOMAIN windows :
        (/\ i # j
         /\ windows[i].outcome = "records"
         /\ windows[j].outcome = "records")
        => windows[i].file # windows[j].file

\* Two subcommunities have each had a first window written, and one of them a
\* second.
C11_Witness ==
    /\ epc = "done"
    /\ \E i \in DOMAIN windows : \E j \in DOMAIN windows : \E k \in DOMAIN windows :
          /\ windows[i].partition # windows[j].partition
          /\ windows[i].batch_num = 1 /\ windows[j].batch_num = 1
          /\ windows[k].batch_num = 2
          /\ windows[i].outcome = "records"
          /\ windows[j].outcome = "records"
          /\ windows[k].outcome = "records"
    /\ Cardinality(files) = 3

\* C12: a window that raised is the last window fetched for its
\* subcommunity; every file written by an earlier window is on disk; and when
\* the export ends the count of every subcommunity has been queried once, in
\* manifest order, whatever windows or counts failed before it.
C12_FailureSkipsOnlyThePartition ==
    /\ \A i \in DOMAIN windows :
          windows[i].outcome = "error" =>
              \A j \in DOMAIN windows :
                  j > i => windows[j].partition # windows[i].partition
    /\ \A i \in DOMAIN windows :
          windows[i].outcome = "records" => windows[i].file \in files
    /\ epc = "done" => counted = [i \in DOMAIN partitions |-> i]

\* The first window of subcommunity 1 was written and its second raised; the
\* count of subcommunity 2 was queried and its window written.
C12_Witness ==
    /\ epc = "done"
    /\ Len(partitions) = 2
    /\ Len(windows) = 3
    /\ windows[1].partition = 1 /\ windows[1].outcome = "records"
    /\ windows[2].partition = 1 /\ windows[2].outcome = "error"
    /\ windows[3].partition = 2 /\ windows[3].outcome = "records"
    /\ Cardinality(files) = 2

\* C19: the staging files written by one export run are numbered 1..N without
\* gaps, N being the number of files written, whatever the outcomes of the
\* subcommunities and windows were.
C19_FilesNumberedWithoutGaps ==
    epc = "done" => files = 1..Cardinality(files)

\* The position of the row with client id c in the returned list (0: absent).
PositionOf(c) ==
    IF \E i \in DOMAIN sorted_rows : sorted_rows[i].client_id = c
    THEN CHOOSE i \in DOMAIN sorted_rows : sorted_rows[i].client_id = c
    ELSE 0

\* The batch {a with no colony, b with colony a, c with a colony that is the
\* id of no row}, in any input order.
IsDanglingBatch(a, b, c) ==
    /\ Cardinality({a, b, c}) = 3
    /\ Len(rows) = 3
    /\ Range(rows) = {ClientRow(a, None), ClientRow(b, a),
                      ClientRow(c, MaxClientId + 1)}

\* C18: for the batch {A with colony null, B with colony A, C with colony Z},
\* Z the id of no row, the sort returns exactly three rows, those of A, B and
\* C with C's colony null, A before B, and C not after B.
C18_DanglingRowNotAfterChild ==
    \A a \in 1..MaxClientId : \A b \in 1..MaxClientId : \A c \in 1..MaxClientId :
        (IsDanglingBatch(a, b, c) /\ spc = "done") =>
            /\ Len(sorted_rows) = 3
            /\ Range(sorted_rows) = {ClientRow(a, None), ClientRow(b, a),
                                     ClientRow(c, None)}
            /\ PositionOf(a) < PositionOf(b)
            /\ ~(PositionOf(c) > PositionOf(b))

\* The input order C, B, A returned as A, C, B.
C18_Witness ==
    /\ spc = "done"
    /\ rows = <<ClientRow(1, MaxClientId + 1), ClientRow(2, 3), ClientRow(3, None)>>
    /\ IsDanglingBatch(3, 2, 1)
    /\ sorted_rows = <<ClientRow(3, None), ClientRow(1, None), ClientRow(2, 3)>>

\* C15: every data_point row inserted by migrate_points has point_id equal to
\* id, after one run and after a rerun, and the point id that the mapping
\* records for a staged data-point id is the id and the point_id of the stored
\* row carrying the name staged with it.
C15_PointIdMirrorsId ==
    choice = 5 =>
        /\ \A r \in db.data_point \ before.data_point : r.point_id = r.id
        /\ \A r \in db.data_point : r.point_id = r.id
        /\ \A c \in DOMAIN csv_to_point_id_map :
              \E r \in db.data_point : \E i \in DOMAIN data :
                  /\ data[i].data_point_id = c
                  /\ data[i].point_name = r.name
                  /\ csv_to_point_id_map[c] = r.id
                  /\ csv_to_point_id_map[c] = r.point_id

\* The first run inserted two data points staged under two ids.
C15_Witness ==
    /\ choice = 5 /\ runs = 1
    /\ before.data_point = {}
    /\ Cardinality(db.data_point) = 2
    /\ Cardinality(DOMAIN csv_to_point_id_map) = 2

\* The staged records that can yield link row l: the owner is the record's
\* asset (asset type) and the point id is the mapping's entry for the
\* record's data-point id.
LinkSources(l, owner) ==
    {i \in DOMAIN data :
        /\ owner[i] = l.owner
        /\ data[i].data_point_id \in DOMAIN csv_to_point_id_map
        /\ csv_to_point_id_map[data[i].data_point_id] = l.data_point_id}

\* C20: after migrate_points every asset-point and asset-type-point row that
\* the loader inserted (every row but those stored before the first run)
\* carries a point id that is a value of the staged-id to point-id mapping and
\* the point_id of a stored data point, and comes from a record whose
\* data-point id has an entry in the mapping; records without an entry yield
\* no row, and the load completes.
C20_LinksCarryMappedPointIds ==
    (choice = 5 /\ runs >= 1) =>
        /\ \A l \in db.asset_point \ PointsStore.asset_point :
              /\ l.data_point_id \in Range(csv_to_point_id_map)
              /\ \E r \in db.data_point : r.point_id = l.data_point_id
              /\ LinkSources(l, [i \in DOMAIN data |-> data[i].asset_id]) # {}
        /\ \A l \in db.asset_type_point \ PointsStore.asset_type_point :
              /\ l.data_point_id \in Range(csv_to_point_id_map)
              /\ \E r \in db.data_point : r.point_id = l.data_point_id
              /\ LinkSources(l, [i \in DOMAIN data |->
                                    AssetTypeId(asset_type_csv, data[i].asset_type)]) # {}

\* Two records stage one point name under two data-point ids, both with an
\* asset of a known asset type: the second id has no entry in the mapping, and
\* the load completed with the links of the first record only.
C20_Witness ==
    /\ choice = 5 /\ runs = 1
    /\ Len(data) = 2
    /\ data[1].point_name = data[2].point_name
    /\ data[1].data_point_id \in DOMAIN csv_to_point_id_map
    /\ data[2].data_point_id # None
    /\ data[2].data_point_id \notin DOMAIN csv_to_point_id_map
    /\ data[1].asset_id # None /\ data[2].asset_id # None
    /\ data[1].asset_id # data[2].asset_id
    /\ Cardinality(db.asset_point) = 1
    /\ Cardinality(db.asset_type_point) = 1

\* C14: a second run of migrate_asset_types on the same file leaves the
\* asset_type table with as many rows as the first run left.
C14_SecondRunKeepsRowCount ==
    runs = 2 => Cardinality(db.asset_type) = Cardinality(before.asset_type)

\* The number of records in the first k files of csv_files.
RECURSIVE RecordsBefore(_)
RecordsBefore(k) ==
    IF k <= 1 THEN 0
    ELSE RecordsBefore(k - 1) + staging[csv_files[k - 1]]

\* Sequence out holds, file after file in the order of csv_files, the records
\* of the first k files in their in-file order, and nothing else.
MergedInOrder(out, k) ==
    /\ Len(out) = RecordsBefore(k + 1)
    /\ \A f \in 1..k : \A line \in 1..staging[csv_files[f]] :
          out[RecordsBefore(f) + line] =
              FileRecords(csv_files[f], staging[csv_files[f]])[line]

\* C16: once the files are sorted, csv_files lists every staging file once,
\* in the numeric order of the numbers in their names (data_2 before data_10);
\* the records read so far are those of the files read so far, file after file
\* and line after line; and the sequence returned to run_migration holds every
\* record of every file exactly once in that order.
C16_NaturalOrderMerge ==
    (rdpc \in {"reading", "menu", "completed", "returned"} /\ read_error = "") =>
        /\ Len(csv_files) = Cardinality(DOMAIN staging)
        /\ Range(csv_files) = DOMAIN staging
        /\ \A i \in DOMAIN csv_files : \A j \in DOMAIN csv_files :
              i < j => IntOf(csv_files[i]) <= IntOf(csv_files[j])
        /\ MergedInOrder(all_rows, file_idx - 1)
        /\ rdpc # "reading" => MergedInOrder(data, Len(csv_files))

\* glob listed data_10.csv before data_2.csv; data_2.csv was read first and
\* its two records come before those of data_10.csv.
C16_Witness ==
    /\ rdpc = "menu"
    /\ glob_order = << <<1, 0>>, <<2>> >>
    /\ csv_files = << <<2>>, <<1, 0>> >>
    /\ staging[<<2>>] = 2
    /\ staging[<<1, 0>>] = 1
    /\ Len(data) = 3
    /\ data[3].building_id = 10

\* C17: when no staging file matches, the reader raises FileNotFoundError,
\* run_migration returns without reaching the menu or a load step, and the
\* target store is as it was.
C17_NoMatchNoLoad ==
    (Matching(request, DOMAIN staging) = {} /\ rdpc # "start") =>
        /\ read_error = "FileNotFoundError"
        /\ rdpc \in {"raised", "returned"}
        /\ choice = 0
        /\ data = << >>
        /\ db = before

\* data_1.csv was asked for in an empty data directory, the target store
\* holding a building; run_migration has returned.
C17_Witness ==
    /\ DOMAIN staging = {}
    /\ request = <<1>>
    /\ read_error = "FileNotFoundError"
    /\ rdpc = "returned"
    /\ db # EmptyStore
    /\ db = before

\* C13: with one loader process no two committed data_point rows carry the
\* same name; two committed rows can carry one name only when two loaders both
\* looked the name up, saw no row and inserted it.
C13_DuplicateNamesOnlyByRace ==
    \A r1 \in db.data_point : \A r2 \in db.data_point :
        (r1 # r2 /\ r1.name = r2.name) =>
            /\ loaders >= 2
            /\ \E p \in 1..loaders : \E q \in 1..loaders :
                  /\ p # q
                  /\ <<p, r1.name>> \in blind
                  /\ <<q, r1.name>> \in blind

\* Two loaders staged the name 2 against an empty store, both saw no row,
\* both inserted and committed: two rows carry the name.
C13_Witness ==
    /\ loaders = 2
    /\ before.data_point = {}
    /\ lpc = [p \in 1..2 |-> "done"]
    /\ {<<1, 2>>, <<2, 2>>} \subseteq blind
    /\ Cardinality({r \in db.data_point : r.name = 2}) = 2

\* C23: the rows map_asset_types_to_rows returns for one run carry pairwise
\* distinct names.
C23_RowNamesDistinct ==
    \A i \in DOMAIN type_rows : \A j \in DOMAIN type_rows :
        i # j => type_rows[i].name # type_rows[j].name

\* The staged records that map_asset_types_to_rows keeps, in staged order.
NamedRecords ==
    SelectSeq(asset_type_data, LAMBDA record : record.child_name \in {1, 2})

\* C24: with M the greatest id stored before the run (0 for an empty table),
\* the k rows of a run are those of the staged records that have a name, in
\* staged order, with the ids M+1, ..., M+k; no id is one already stored.
C24_IdsFollowStoredMaximum ==
    runs >= 1 =>
        LET M == SetMax({r.id : r \in before.asset_type} \cup {0})
        IN  /\ Len(type_rows) = Len(NamedRecords)
            /\ \A i \in DOMAIN type_rows :
                  /\ type_rows[i].id = M + i
                  /\ type_rows[i].name = NamedRecords[i].child_name
                  /\ \A r \in before.asset_type : r.id # type_rows[i].id

\* The table held id 1; a record without a name came first and consumed no
\* id, the record after it received id 2.
C24_Witness ==
    /\ runs = 1
    /\ before.asset_type = {[id |-> 1, name |-> 1]}
    /\ Len(asset_type_data) = 2
    /\ asset_type_data[1].child_name = None
    /\ asset_type_data[2].child_name = 2
    /\ type_rows = <<[id |-> 2, name |-> 2]>>
    /\ db.asset_type = {[id |-> 1, name |-> 1], [id |-> 2, name |-> 2]}

\* The first staged record carrying space id k.
FirstWithSpace(k) == SetMin({i \in DOMAIN data : data[i].spaces_id = k})

\* C25: get_space_rows returns at most one row per space id, and each row it
\* returns is built from the first staged record carrying its space id.
C25_SpaceRowFromFirstRecord ==
    mapper = "space" =>
        /\ \A i \in DOMAIN mapped : \A j \in DOMAIN mapped :
              mapped[i].identifier = mapped[j].identifier => i = j
        /\ \A j \in DOMAIN mapped :
              mapped[j] = SpaceRow(data[FirstWithSpace(mapped[j].identifier)])

\* The client ids of the batch are non-empty and pairwise distinct.
DistinctIds ==
    \A i \in DOMAIN rows :
        /\ rows[i].client_id # None
        /\ \A j \in DOMAIN rows : rows[i].client_id = rows[j].client_id => i = j

\* C26: for a batch with non-empty, pairwise distinct client ids the returned
\* list has one row per input row and no other: the row with the same id,
\* its colony unchanged or rewritten to null when it names no row of the
\* batch; the rows whose id was never dequeued come last, unchanged and in
\* input order.
C26_EveryRowOnce ==
    (DistinctIds /\ spc = "done") =>
        /\ Len(sorted_rows) = Len(rows)
        /\ \A i \in DOMAIN rows :
              \E j \in DOMAIN sorted_rows :
                  /\ sorted_rows[j].client_id = rows[i].client_id
                  /\ \/ sorted_rows[j].colony = rows[i].colony
                     \/ /\ sorted_rows[j].colony = None
                        /\ rows[i].colony \notin BatchIds
                  /\ \A j2 \in DOMAIN sorted_rows :
                        sorted_rows[j2].client_id = rows[i].client_id => j2 = j
        /\ SubSeq(sorted_rows, Len(dequeued) + 1, Len(sorted_rows)) =
              SelectSeq(rows, LAMBDA row : row.client_id \notin Range(dequeued))

\* Ids 1 and 2 name each other and are never dequeued; id 3 is sorted and the
\* two rows of the cycle follow it in input order.
C26_Witness ==
    /\ spc = "done"
    /\ rows = <<ClientRow(1, 2), ClientRow(2, 1), ClientRow(3, MaxClientId + 1)>>
    /\ dequeued = <<3>>
    /\ sorted_rows = <<ClientRow(3, None), ClientRow(1, 2), ClientRow(2, 1)>>

\* C27: sort_rows_for_foreign_key returns for every batch, and on the way no
\* client id is enqueued or dequeued twice, so the loop runs at most once per
\* distinct id of the batch (the empty id of a row that names a parent counts
\* as one).
C27_SortTerminates ==
    /\ [](/\ \A i \in DOMAIN dequeued : \A j \in DOMAIN dequeued :
               dequeued[i] = dequeued[j] => i = j
          /\ \A i \in DOMAIN queue : \A j \in DOMAIN queue :
               queue[i] = queue[j] => i = j
          /\ Range(queue) \cap Range(dequeued) = {}
          /\ Range(dequeued) \subseteq {rows[i].client_id : i \in DOMAIN rows})
    /\ <>(spc = "done")

\* Id 2 occurs in two rows, one naming 1 and one naming 3: it was enqueued
\* once, after both had been dequeued, and the function returned.
C27_Witness ==
    /\ spc = "done"
    /\ Len(rows) = 3
    /\ \E i \in DOMAIN rows : \E j \in DOMAIN rows :
          /\ i # j
          /\ rows[i].client_id = rows[j].client_id
          /\ rows[i].colony # rows[j].colony
          /\ rows[i].colony # None /\ rows[j].colony # None
          /\ rows[i].colony # rows[i].client_id
          /\ rows[j].colony # rows[j].client_id
          /\ rows[i].client_id \in Range(dequeued)
    /\ Len(dequeued) >= 2

\* Every row of table old is a row of table new, unchanged, and new holds no
\* other row with its key.
KeptUnchanged(old, new, Key(_)) ==
    \A r \in old : {x \in new : Key(x) = Key(r)} = {r}

\* C29: a run of migrate_points leaves every data_point row stored before it
\* unchanged and adds no second row with its name, and leaves every stored
\* asset_point and asset_type_point row unchanged and adds no second row with
\* its (owner, data point) pair, whatever values the staged records carry.
C29_StoredRowsUntouched ==
    choice = 5 =>
        /\ KeptUnchanged(before.data_point, db.data_point, LAMBDA r : r.name)
        /\ KeptUnchanged(before.asset_point, db.asset_point,
                         LAMBDA r : <<r.owner, r.data_point_id>>)
        /\ KeptUnchanged(before.asset_type_point, db.asset_type_point,
                         LAMBDA r : <<r.owner, r.data_point_id>>)

\* Point 1 and its links were stored with other values than the first staged
\* record carries for the same name, asset and asset type; the run completed.
C29_Witness ==
    /\ choice = 5 /\ runs = 1
    /\ before = PointsStore
    /\ asset_type_csv = <<1>>
    /\ Len(data) >= 1
    /\ data[1].point_name = 1 /\ data[1].asset_id = 1
    /\ data[1].data_point_id # None
    /\ data[1].val = "v1"
    /\ 1 \in Range(csv_to_point_id_map)
    /\ db = before

\* C30: after migrate_points, for every staged record with an asset id, a
\* data-point id and a point name, asset_point holds a row linking the asset
\* to the data point stored under that name.
C30_EveryPointRecordLinked ==
    (choice = 5 /\ runs >= 1) =>
        \A i \in DOMAIN data :
            (/\ data[i].asset_id # None
             /\ data[i].data_point_id # None
             /\ data[i].point_name # None)
            => \E l \in db.asset_point : \E r \in db.data_point :
                  /\ l.owner = data[i].asset_id
                  /\ r.name = data[i].point_name
                  /\ l.data_point_id = r.point_id

\* C28: when the export has completed, every data_N.csv file in the data
\* directory (all of them match the reader's pattern data_*.csv) was written
\* by this run.
C28_OnlyThisRunsFiles ==
    epc = "done" => data_dir = files

-----------------------------------------------------------------------------
(* Claims about the epoch conversion *)

IsZeroText(text) == IsDigits(text) /\ ParseInt(text) = <<0>>

\* C21: when the Row Mapper has filled an epoch field (building open, close
\* or created time, asset created or updated time), an empty staged value
\* and a zero staged value both gave null in the emitted row.
C21_EmptyAndZeroMapToNull ==
    (/\ epoch_pc \in {"mapped", "map_raised"}
     /\ \/ ~Truthy(epoch_value)
        \/ IsZeroText(epoch_value.text))
    => epoch_result = NullResult

\* 1000*s exceeds the threshold of line 18 and s does not.
SecondsWithMillisAbove(text) ==
    /\ IsDigits(text)
    /\ ~GreaterThan(ParseInt(text), MillisThreshold)
    /\ GreaterThan(ParseInt(text \o Zeros(3)), MillisThreshold)

\* C22: when convert_epoch_to_timestamp has run on a value, (a) None and the
\* empty text gave null, (b) a text that is not a number gave null and
\* nothing was raised, (c) a number of seconds s whose 1000*s exceeds the
\* threshold while s does not gave an instant, the one 1000*s is converted
\* to.
C22_SecondsAndMillisAgree ==
    epoch_pc \in {"converted", "raised"} =>
        /\ ~Truthy(epoch_value) => epoch_result = NullResult
        /\ (Truthy(epoch_value) /\ ~IsDigits(epoch_value.text))
               => epoch_result = NullResult
        /\ SecondsWithMillisAbove(epoch_value.text) =>
               /\ epoch_result.kind = "instant"
               /\ epoch_result =
                      convert_epoch_to_timestamp(
                          TextValue(epoch_value.text \o Zeros(3)))

=============================================================================
